---- MODULE Spec2Model ----
(***************************************************************************)
(* Model of the recording pipeline state machine of memo-app's backend:    *)
(* the meeting_records table (Record Store), the streamed-capture files on *)
(* disk, the finalize routine, the stale-recording watchdog, the           *)
(* background transcription poller and the manual processing trigger.      *)
(*                                                                         *)
(* Modelling assumptions                                                   *)
(*  - Every database statement succeeds (commits never fail) and a commit  *)
(*    is one atomic step; the external calls between two commits (stitch,  *)
(*    upload, inference) are where other threads interleave.               *)
(*  - updated_at is kept as the number of whole minutes since the row was  *)
(*    last written, saturating one minute past the watchdog timeout, and   *)
(*    only while the row is RECORDING: nothing reads it in another state.  *)
(*  - A SQLAlchemy session writes only the attributes whose assigned value *)
(*    differs from the value it loaded (net change); the sessions that     *)
(*    hold a row across an external call (finalize, watchdog) keep the     *)
(*    loaded values in their state.                                        *)
(***************************************************************************)
EXTENDS Integers, Sequences, FiniteSets, TLC

\* ---------------------------------------------------------------- bounds
\* Recordings followed through the processing pipeline.
NumMeetings == 1
\* Streamed captures watched by the watchdog.
NumCaptures == 2

\* Recordings queued together for one check of the poller.
NumQueued == 2
\* Restarts of the backend process.
MaxRestarts == 1
\* Largest configured AUDIO_MAX_RETRIES.
MaxRetries == 4
\* Chunks a recording is split into.
MaxChunks == 2
\* Largest segment end of a transcript, in seconds.
MaxSeconds == 121
\* Entries of the array an action item response holds.
MaxItems == 2
\* start() calls that find the service stopped, after the one of lifespan.
MaxStarts == 1

Max(a, b) == IF a > b THEN a ELSE b

Meetings == 1..Max(NumMeetings, Max(NumCaptures, NumQueued))
PipelineMeetings == 1..NumMeetings
Captures == 1..NumCaptures
Queued == 1..NumQueued
\* The capture followed through finalize.
TheCapture == CHOOSE m \in Meetings : \A n \in Meetings : m <= n

\* ------------------------------------------------------ program constants
timeout_minutes == 5

\* ---------------------------------------------------------------- values
None == "None"
Set == "set"
\* An empty list, the error text a derived-text call returns in place of its
\* result, and a call that raised.
Empty == "[]"
ErrorText == "Error generating ..."
Raised == "raised"

RECORDING == "RECORDING"
PENDING == "PENDING"
PROCESSING == "PROCESSING"
COMPLETED == "COMPLETED"
FAILED == "FAILED"

TranscriptionStatus == {RECORDING, PENDING, PROCESSING, COMPLETED, FAILED}
AnalyticsStatus == {PENDING, PROCESSING, COMPLETED, FAILED}

\* Audio references.  The object-store key of a meeting is a function of its
\* id alone; the merged file is named by its relative path when the stitcher
\* returns it and by its absolute path when finalize finds it on disk.
S3Key == "s3:audio/<id>/<id>.mp3"
RelWav == "temp_audio/meeting_<id>.wav"
RelWebm == "temp_audio/meeting_<id>.webm"
AbsWav == "/cwd/temp_audio/meeting_<id>.wav"
AbsWebm == "/cwd/temp_audio/meeting_<id>.webm"
LocalPaths == {RelWav, RelWebm, AbsWav, AbsWebm}

ProcessingFields == {"transcription", "summary", "key_points"}
ResultFields == ProcessingFields \cup {"action_items", "participants"}
SuggestFields == {"templateid", "description", "title"}

VARIABLES
    rows,        \* ids of the rows of meeting_records
    db,          \* the rows: db[m] is a record of column values
    streams,     \* streams[m]: the appended stream files in temp_audio/<id>/
    merged,      \* merged[m]: the merged files temp_audio/meeting_<id>.{wav,webm}
    s3_objects,  \* ids whose audio object is in the bucket
    fin,         \* fin[f]: a running finalize_meeting_recording call
    wd,          \* the watchdog thread
    worker,      \* worker[w]: the poller thread and the manual trigger
    svc,         \* the BackgroundTranscriptionService object and its loop counters
    call,        \* a running retry_with_backoff call
    job,         \* a running transcribe_chunks call
    analysis,    \* the last extract_analytics call
    extraction   \* the last extract_action_items call

vars == <<rows, db, streams, merged, s3_objects, fin, wd, worker, svc, call, job, analysis, extraction>>

\* ------------------------------------------------------------- the table
\* A row that was never inserted holds the column defaults.
NoRow ==
    [status |-> PENDING, analytics_status |-> PENDING, s3_audio_path |-> None,
     is_processed |-> FALSE, transcription |-> None, summary |-> None,
     key_points |-> None, action_items |-> None, participants |-> None,
     analytics_data |-> None, templateid |-> None, description |-> None,
     title |-> None, updated_ago |-> 0]

Columns == DOMAIN NoRow

\* Overwrite the columns a patch names; every write refreshes updated_at.
SetColumns(row, patch) ==
    [c \in Columns |->
        IF c = "updated_ago" THEN 0
        ELSE IF c \in DOMAIN patch THEN patch[c] ELSE row[c]]

\* The columns of `assigned` whose value differs from what the session loaded.
NetChange(loaded, assigned) ==
    LET changed == {c \in DOMAIN assigned : assigned[c] # loaded[c]}
    IN  [c \in changed |-> assigned[c]]

\* Flush of a session that loaded `loaded` and assigned `assigned`: an UPDATE
\* of the changed columns, and no statement at all when nothing changed.
Flush(row, loaded, assigned) ==
    LET patch == NetChange(loaded, assigned)
    IN  IF DOMAIN patch = {} THEN row ELSE SetColumns(row, patch)

\* create_meeting_record
create_meeting_record(meeting, initial_status) ==
    LET has_processing == \E c \in ProcessingFields : meeting[c] # None
        st == IF initial_status # None THEN initial_status
              ELSE IF has_processing THEN COMPLETED
              ELSE PENDING
    IN  [NoRow EXCEPT !.status = st,
                      !.s3_audio_path = meeting.s3_audio_path,
                      !.transcription = meeting.transcription,
                      !.summary = meeting.summary,
                      !.key_points = meeting.key_points,
                      !.templateid = meeting.templateid,
                      !.description = meeting.description,
                      !.title = meeting.title,
                      !.is_processed = has_processing]

\* update_meeting_record: the patch holds the fields the caller set.
update_data(patch) ==
    IF \E c \in ProcessingFields : c \in DOMAIN patch
    THEN [c \in DOMAIN patch \cup {"is_processed", "status"} |->
            IF c = "is_processed" THEN TRUE
            ELSE IF c = "status"
                 THEN (IF "status" \in DOMAIN patch THEN patch.status ELSE COMPLETED)
                 ELSE patch[c]]
    ELSE patch

update_meeting_record(row, patch) ==
    Flush(row, row, update_data(patch))

\* _update_meeting_status / _update_analytics_status
_update_meeting_status(row, st) ==
    Flush(row, row, [status |-> st])

_update_analytics_status(row, st) ==
    Flush(row, row, [analytics_status |-> st])

\* ------------------------------------------------------------ API layer
\* The request bodies of the creation routes.  A title is required by the
\* schema: None stands for an empty or placeholder title ("Untitled
\* Meeting", "Zoom: ..."), which finalize treats as missing.
StreamInitBody ==
    [s3_audio_path |-> None, transcription |-> None, summary |-> None,
     key_points |-> None, templateid |-> None, description |-> None,
     title |-> None]

TitledInitBody ==
    [s3_audio_path |-> None, transcription |-> None, summary |-> None,
     key_points |-> None, templateid |-> Set, description |-> Set,
     title |-> Set]

UploadBody ==
    [s3_audio_path |-> S3Key, transcription |-> None, summary |-> None,
     key_points |-> None, templateid |-> Set, description |-> Set,
     title |-> Set]

\* POST /stream/init
init_meeting_recording(m, body) ==
    /\ m \notin rows
    /\ rows' = rows \cup {m}
    /\ db' = [db EXCEPT ![m] = create_meeting_record(body, RECORDING)]
    /\ UNCHANGED <<streams, merged, s3_objects, fin, wd, worker, svc, call, job, analysis, extraction>>

\* POST /meetings/ : the audio is uploaded first, the row is created PENDING.
create_meeting(m) ==
    /\ m \notin rows
    /\ rows' = rows \cup {m}
    /\ s3_objects' = s3_objects \cup {m}
    /\ db' = [db EXCEPT ![m] = create_meeting_record(UploadBody, None)]
    /\ UNCHANGED <<streams, merged, fin, wd, worker, svc, call, job, analysis, extraction>>

\* POST /stream/chunk/{id}
ChunkAccepted(row) == row.status = RECORDING

upload_audio_chunk(m, files) ==
    /\ m \in rows
    /\ ChunkAccepted(db[m])
    /\ streams' = [streams EXCEPT ![m] = @ \cup files]
    /\ db' = [db EXCEPT ![m].updated_ago = 0]
    /\ UNCHANGED <<rows, merged, s3_objects, fin, wd, worker, svc, call, job, analysis, extraction>>

\* POST /meetings/{id}/reprocess
reprocess_row(row) ==
    Flush(row, row, [status |-> PENDING, is_processed |-> FALSE])

reprocess_meeting(m) ==
    /\ m \in rows
    /\ db' = [db EXCEPT ![m] = reprocess_row(@)]
    /\ UNCHANGED <<rows, streams, merged, s3_objects, fin, wd, worker, svc, call, job, analysis, extraction>>

\* PUT /meetings/{id} with a MeetingRecordUpdate body
UpdatePatches ==
    { [title |-> Set], [summary |-> Set] }

update_meeting(m, patch) ==
    /\ m \in rows
    /\ db' = [db EXCEPT ![m] = update_meeting_record(@, patch)]
    /\ UNCHANGED <<rows, streams, merged, s3_objects, fin, wd, worker, svc, call, job, analysis, extraction>>

\* Passage of one minute.
Saturate(n) == IF n > timeout_minutes THEN timeout_minutes + 1 ELSE n

Tick ==
    /\ \E m \in rows : db[m].status = RECORDING /\ db[m].updated_ago <= timeout_minutes
    /\ db' = [m \in Meetings |->
                IF m \in rows /\ db[m].status = RECORDING
                THEN [db[m] EXCEPT !.updated_ago = Saturate(@ + 1)]
                ELSE db[m]]
    /\ UNCHANGED <<rows, streams, merged, s3_objects, fin, wd, worker, svc, call, job, analysis, extraction>>

\* ------------------------------------------------------------- finalize
Finalizers == {"client", "watchdog"}

\* The columns finalize assigns, as a session loaded them.
Loaded(row) ==
    [status |-> row.status, analytics_status |-> row.analytics_status,
     s3_audio_path |-> row.s3_audio_path]

\* path is final_audio_path and uploaded what upload_audio_file returned.
FinIdle ==
    [pc |-> "idle", id |-> 0, path |-> None, uploaded |-> None,
     loaded |-> Loaded(NoRow)]

\* stitch_audio_chunks_v3: the path it returns and the files it leaves.
\* mix_ok is whether the codec could load and mix the stream files.
stitch_audio_chunks_v3(st, mg, mix_ok) ==
    IF st = {}
    THEN [path |-> None, merged |-> mg, streams |-> st]
    ELSE IF mix_ok
    THEN [path |-> RelWav, merged |-> mg \cup {"wav"}, streams |-> {}]
    ELSE IF "mic" \in st
    THEN [path |-> RelWebm, merged |-> mg \cup {"webm"}, streams |-> {}]
    ELSE [path |-> None, merged |-> mg, streams |-> st]

\* What a path returned by the stitch names: the WAV file the codec
\* exported, or the copy of a raw stream file.
CodecExport(path) == path = RelWav
RawCopy(path) == path = RelWebm

\* The first part of finalize_meeting_recording: the merged file already on
\* disk, or else the result of stitching.
FindOrStitch(st, mg, mix_ok) ==
    IF "wav" \in mg THEN [path |-> AbsWav, merged |-> mg, streams |-> st]
    ELSE IF "webm" \in mg THEN [path |-> AbsWebm, merged |-> mg, streams |-> st]
    ELSE stitch_audio_chunks_v3(st, mg, mix_ok)

\* upload_audio_file: the object key, or None when the upload failed.
upload_audio_file(upload_ok) == IF upload_ok THEN S3Key ELSE None

\* Variant without the fallback to the local file.
FinalAudioRefNoFallback(path, uploaded) == uploaded

\* The audio reference finalize stores.
FinalAudioRef(path, uploaded) == IF uploaded = None THEN path ELSE uploaded

\* Variant that stores the audio reference only.
EarlyStatusUpdateAudioOnly(ref) ==
    [s3_audio_path |-> ref]

\* The early status update of finalize_meeting_recording.
EarlyStatusUpdate(ref) ==
    [s3_audio_path |-> ref, status |-> PENDING, analytics_status |-> PENDING]

\* finalize_meeting_recording up to the stitch, in a session that holds the
\* row with the column values `loaded`.  The watchdog acts on the value
\* returned; the client's background task only logs it and ends.
FinBegin(f, m, loaded) ==
    /\ fin[f].pc = "idle"
    /\ \E mix_ok \in BOOLEAN :
          LET r == FindOrStitch(streams[m], merged[m], mix_ok)
          IN  /\ streams' = [streams EXCEPT ![m] = r.streams]
              /\ merged' = [merged EXCEPT ![m] = r.merged]
              /\ fin' = [fin EXCEPT ![f] =
                            IF r.path = None /\ f = "client"
                            THEN FinIdle
                            ELSE [pc |-> IF r.path = None THEN "ret_none" ELSE "upload",
                                  id |-> m, path |-> r.path, uploaded |-> None,
                                  loaded |-> loaded]]

\* The same in the two steps another thread can come between: the test for
\* a merged file already on disk, then the stitch of what the stream
\* directory holds by then.
FinExists(f, m, loaded) ==
    /\ fin[f].pc = "idle"
    /\ fin' = [fin EXCEPT ![f] =
                 IF merged[m] = {}
                 THEN [pc |-> "stitch", id |-> m, path |-> None,
                       uploaded |-> None, loaded |-> loaded]
                 ELSE [pc |-> "upload", id |-> m,
                       path |-> FindOrStitch(streams[m], merged[m], TRUE).path,
                       uploaded |-> None, loaded |-> loaded]]
    /\ UNCHANGED <<streams, merged>>

FinStitch(f) ==
    /\ fin[f].pc = "stitch"
    /\ \E mix_ok \in BOOLEAN :
          LET m == fin[f].id
              r == stitch_audio_chunks_v3(streams[m], merged[m], mix_ok)
          IN  /\ streams' = [streams EXCEPT ![m] = r.streams]
              /\ merged' = [merged EXCEPT ![m] = r.merged]
              /\ fin' = [fin EXCEPT ![f] =
                            IF r.path = None /\ f = "client"
                            THEN FinIdle
                            ELSE [@ EXCEPT !.pc = IF r.path = None THEN "ret_none"
                                                  ELSE "upload",
                                           !.path = r.path]]
    /\ UNCHANGED <<rows, db, s3_objects, wd, worker, svc, call, job, analysis, extraction>>

\* The upload and the early status update.
FinUploadCommit(f) ==
    /\ fin[f].pc = "upload"
    /\ \E upload_ok \in BOOLEAN :
          LET m == fin[f].id
              up == upload_audio_file(upload_ok)
              ref == FinalAudioRef(fin[f].path, up)
          IN  /\ s3_objects' = IF up = None THEN s3_objects ELSE s3_objects \cup {m}
              /\ db' = [db EXCEPT ![m] = Flush(@, fin[f].loaded, EarlyStatusUpdate(ref))]
              /\ fin' = [fin EXCEPT ![f].pc = "suggest", ![f].uploaded = up]
    /\ UNCHANGED <<rows, streams, merged, worker, svc, call, job, analysis, extraction>>

\* The best-effort suggestion calls: `got` are the missing fields for which a
\* call returned a value; a call that fails or raises contributes nothing.
SuggestionUpdate(row, got) ==
    IF got = {} THEN row ELSE SetColumns(row, [c \in got |-> Set])

FinSuggest(f) ==
    /\ fin[f].pc = "suggest"
    /\ LET m == fin[f].id
           missing == {c \in SuggestFields : db[m][c] = None}
       IN  \E got \in SUBSET missing :
              db' = [db EXCEPT ![m] = SuggestionUpdate(@, got)]
    /\ fin' = [fin EXCEPT ![f] =
                 IF f = "client" THEN FinIdle ELSE [@ EXCEPT !.pc = "ret_meeting"]]
    /\ UNCHANGED <<rows, streams, merged, s3_objects, worker, svc, call, job, analysis, extraction>>

\* POST /stream/finalize/{id}: finalize_meeting_background_execution runs
\* in a background task with a session of its own.
finalize_stream(m) ==
    /\ m \in rows
    /\ FinBegin("client", m, Loaded(db[m]))
    /\ UNCHANGED <<rows, db, s3_objects, wd, worker, svc, call, job, analysis, extraction>>

\* The background task in its steps.
ClientExists(m) ==
    /\ m \in rows
    /\ FinExists("client", m, Loaded(db[m]))
    /\ UNCHANGED <<rows, db, s3_objects, wd, worker, svc, call, job, analysis, extraction>>

ClientStitch == FinStitch("client")

ClientUploadCommit == FinUploadCommit("client") /\ UNCHANGED wd

ClientSuggest == FinSuggest("client") /\ UNCHANGED wd

\* ------------------------------------------------------------- watchdog
WdSleep == [pc |-> "sleep", queue |-> <<>>, expired |-> FALSE]

\* Ascending sequence of the elements of a set of ids.
RECURSIVE SeqOf(_)
SeqOf(S) ==
    IF S = {} THEN <<>>
    ELSE LET x == CHOOSE y \in S : \A z \in S : y <= z
         IN  <<x>> \o SeqOf(S \ {x})

\* Variant that counts a row updated exactly the timeout ago as stale.
IsStaleAtTimeout(row) ==
    /\ row.status = RECORDING
    /\ row.updated_ago >= timeout_minutes

IsStale(row) ==
    /\ row.status = RECORDING
    /\ row.updated_ago > timeout_minutes

\* The query of _check_stale_recordings: the rows as loaded by the session.
stale_meetings ==
    LET ids == SeqOf({m \in rows : IsStale(db[m])})
    IN  [i \in 1..Len(ids) |-> [id |-> ids[i], row |-> Loaded(db[ids[i]])]]

_check_stale_recordings ==
    /\ wd.pc = "sleep"
    /\ stale_meetings # <<>>
    /\ wd' = [pc |-> "loop", queue |-> stale_meetings, expired |-> FALSE]
    /\ UNCHANGED <<rows, db, streams, merged, s3_objects, fin, worker, svc, call, job, analysis, extraction>>

\* The loop body up to the stitch.  The session reloads a row only after
\* one of its own commits expired it.
WdFinalize ==
    /\ wd.pc = "loop"
    /\ wd.queue # <<>>
    /\ LET h == Head(wd.queue)
       IN  FinBegin("watchdog", h.id, IF wd.expired THEN Loaded(db[h.id]) ELSE h.row)
    /\ UNCHANGED <<rows, db, s3_objects, wd, worker, svc, call, job, analysis, extraction>>

\* The loop body in its steps.
WdExists ==
    /\ wd.pc = "loop"
    /\ wd.queue # <<>>
    /\ LET h == Head(wd.queue)
       IN  FinExists("watchdog", h.id, IF wd.expired THEN Loaded(db[h.id]) ELSE h.row)
    /\ UNCHANGED <<rows, db, s3_objects, wd, worker, svc, call, job, analysis, extraction>>

WdStitch == FinStitch("watchdog")

WdUploadCommit ==
    /\ FinUploadCommit("watchdog")
    /\ wd' = [wd EXCEPT !.expired = TRUE]

WdSuggest == FinSuggest("watchdog") /\ UNCHANGED wd

\* Variant that leaves the row as it is.
MarkFailedNoop(row, loaded) == row

\* finalize returned: a None result marks the recording FAILED.
MarkFailed(row, loaded) == Flush(row, loaded, [status |-> FAILED])

WdAfterFinalize ==
    /\ fin["watchdog"].pc \in {"ret_none", "ret_meeting"}
    /\ LET m == fin["watchdog"].id
       IN  IF fin["watchdog"].pc = "ret_none"
           THEN /\ db' = [db EXCEPT ![m] = MarkFailed(@, fin["watchdog"].loaded)]
                /\ wd' = [wd EXCEPT !.queue = Tail(@), !.expired = TRUE]
           ELSE /\ db' = db
                /\ wd' = [wd EXCEPT !.queue = Tail(@)]
    /\ fin' = [fin EXCEPT !["watchdog"] = FinIdle]
    /\ UNCHANGED <<rows, streams, merged, s3_objects, worker, svc, call, job, analysis, extraction>>

WdPassDone ==
    /\ wd.pc = "loop"
    /\ wd.queue = <<>>
    /\ wd' = WdSleep
    /\ UNCHANGED <<rows, db, streams, merged, s3_objects, fin, worker, svc, call, job, analysis, extraction>>

\* ------------------------------------------- poller and manual trigger
\* "poller" is the thread of _worker_loop, "manual" a process_all_pending call.
Workers == {"poller", "manual"}

NoMeeting == [id |-> 0, s3_audio_path |-> None]

\* queue is what is left of pending_meetings and done the ids the for loop
\* is through with; cur is the meeting _process_meeting was called with and
\* transcription the local that holds what get_transcription returned.
WorkerIdle ==
    [pc |-> "idle", queue |-> <<>>, done |-> {}, cur |-> NoMeeting,
     transcription |-> None]

\* The service object after start(): is_running, and the locals of
\* _worker_loop.  wait_time is assigned only by the loop's except branch;
\* restarts counts the process restarts.
max_consecutive_errors == 5
max_wait_time == 300
\* The sleep between two checks when the last one found work.
check_interval == 10

\* The threads start() creates, in the order of their creation.  A thread
\* is at the test of the while loop, at the query, in the for loop, in
\* _process_meeting, asleep, or it has ended.
Threads == 1..(MaxStarts + 1)
ThreadUnborn == [pc |-> "unborn", queue |-> <<>>, cur |-> 0]
ThreadStarted == [ThreadUnborn EXCEPT !.pc = "while"]

\* stop_event, worker_thread and the threads follow the start and stop
\* calls; joining is TRUE while a stop() call waits in join.
SvcStarted ==
    [is_running |-> TRUE, consecutive_errors |-> 0, wait_time |-> 0, restarts |-> 0,
     stop_event |-> FALSE, worker_thread |-> 1, joining |-> FALSE,
     threads |-> [t \in Threads |-> IF t = 1 THEN ThreadStarted ELSE ThreadUnborn]]

\* The poller runs while is_running; process_all_pending does not look at it.
Running(w) == w = "poller" => svc.is_running

\* "consecutive_errors = 0" after a check or a pass that raised nothing.
ResetErrors(w) ==
    IF w = "poller" THEN [svc EXCEPT !.consecutive_errors = 0] ELSE svc

\* Variant without the conditions on the audio reference.
IsPendingAnyAudio(row) ==
    row.status = PENDING

\* The filter of _get_pending_meetings.
IsPending(row) ==
    /\ row.status = PENDING
    /\ row.s3_audio_path # None
    /\ row.s3_audio_path # ""

\* _get_pending_meetings: the selected rows, detached from their session, so
\* each keeps the column values it had when the query ran.
_get_pending_meetings ==
    LET ids == SeqOf({m \in rows : IsPending(db[m])})
    IN  [i \in 1..Len(ids) |->
            [id |-> ids[i], s3_audio_path |-> db[ids[i]].s3_audio_path]]

\* One query of the worker loop or of process_all_pending.  With nothing
\* pending the poller sleeps and the manual trigger returns.
GetPending(w) ==
    /\ worker[w].pc = "idle"
    /\ Running(w)
    /\ worker' = [worker EXCEPT ![w] =
                    IF _get_pending_meetings # <<>>
                    THEN [WorkerIdle EXCEPT !.pc = "loop", !.queue = _get_pending_meetings]
                    ELSE IF w = "poller" THEN [WorkerIdle EXCEPT !.pc = "sleep"]
                    ELSE WorkerIdle]
    /\ svc' = IF _get_pending_meetings # <<>> THEN svc ELSE ResetErrors(w)
    /\ UNCHANGED <<rows, db, streams, merged, s3_objects, fin, wd, call, job, analysis, extraction>>

\* _process_meeting, first statement: the status becomes PROCESSING.
ProcessStart(w) ==
    /\ worker[w].pc = "loop"
    /\ worker[w].queue # <<>>
    /\ LET meeting == Head(worker[w].queue)
       IN  /\ db' = [db EXCEPT ![meeting.id] = _update_meeting_status(@, PROCESSING)]
           /\ worker' = [worker EXCEPT ![w] =
                           [WorkerIdle EXCEPT !.pc = "processing",
                                              !.queue = Tail(worker[w].queue),
                                              !.done = worker[w].done,
                                              !.cur = meeting]]
    /\ UNCHANGED <<rows, streams, merged, s3_objects, fin, wd, svc, call, job, analysis, extraction>>

\* Variant in which the end of a run ends the check.
AfterRunDropRest(wk) ==
    [wk EXCEPT !.pc = "loop", !.cur = NoMeeting, !.queue = <<>>,
               !.done = @ \cup {wk.cur.id}]

\* _process_meeting returned, having caught what its work raised: the for
\* loop goes on with the rest of the list.
AfterRun(wk) ==
    [wk EXCEPT !.pc = "loop", !.cur = NoMeeting, !.done = @ \cup {wk.cur.id}]

\* os.path.exists(meeting.s3_audio_path)
LocalFileExists(path, mg) ==
    \/ path \in {RelWav, AbsWav} /\ "wav" \in mg
    \/ path \in {RelWebm, AbsWebm} /\ "webm" \in mg

\* Whether _process_meeting can get the audio bytes of `meeting`: from the
\* local file when the reference names one, from the bucket otherwise.
AudioAvailable(meeting, mg, objs, download_ok) ==
    IF LocalFileExists(meeting.s3_audio_path, mg)
    THEN TRUE
    ELSE /\ meeting.s3_audio_path = S3Key
         /\ meeting.id \in objs
         /\ download_ok

\* What the inference calls of one run return.  get_transcription returns
\* segments, or the empty list when the single call failed after its retries
\* or every chunk failed, or raises (no client, invalid audio, failed split).
\* generate_summary and extract_key_points return their text or an error
\* text; extract_action_items returns its items or the empty list.
Outcomes ==
    [transcription : {Set, Empty, Raised}, summary : {Set, ErrorText},
     key_points : {Set, ErrorText}, action_items : {Set, Empty}]

\* The runs in which every call succeeds or the transcription raises.
NominalOutcomes ==
    {o \in Outcomes :
        /\ o.transcription # Empty
        /\ o.summary = Set /\ o.key_points = Set /\ o.action_items = Set}

\* _extract_participants_from_transcription
_extract_participants_from_transcription(transcription) ==
    IF transcription = Empty THEN Empty ELSE Set

\* Variant that saves no participants.
TranscriptionResultsNoParticipants(o) ==
    [transcription |-> o.transcription, summary |-> o.summary,
     key_points |-> o.key_points, action_items |-> o.action_items,
     status |-> COMPLETED]

\* Variant in which a failed derived-text call fails the run.
TranscriptionResultsOrFailed(o) ==
    IF o.summary = ErrorText \/ o.key_points = ErrorText \/ o.action_items = Empty
    THEN [status |-> FAILED]
    ELSE [transcription |-> o.transcription, summary |-> o.summary,
          key_points |-> o.key_points, action_items |-> o.action_items,
          participants |-> _extract_participants_from_transcription(o.transcription),
          status |-> COMPLETED]

\* The patch _process_meeting saves when get_transcription returned.
TranscriptionResults(o) ==
    [transcription |-> o.transcription, summary |-> o.summary,
     key_points |-> o.key_points, action_items |-> o.action_items,
     participants |-> _extract_participants_from_transcription(o.transcription),
     status |-> COMPLETED]

\* _process_meeting from loading the audio to the return of
\* get_transcription, or to the FAILED status when the audio cannot be loaded
\* or validated or when the transcription raises.  `outcomes` are the
\* inference outcomes considered.
ProcessTranscribe(w, outcomes) ==
    /\ worker[w].pc = "processing"
    /\ LET meeting == worker[w].cur
       IN  \E download_ok \in BOOLEAN, o \in outcomes :
              IF AudioAvailable(meeting, merged[meeting.id], s3_objects, download_ok)
                 /\ o.transcription # Raised
              THEN /\ db' = db
                   /\ worker' = [worker EXCEPT ![w].pc = "derive",
                                               ![w].transcription = o.transcription]
              ELSE /\ db' = [db EXCEPT ![meeting.id] = _update_meeting_status(@, FAILED)]
                   /\ worker' = [worker EXCEPT ![w] = AfterRun(@)]
    /\ UNCHANGED <<rows, streams, merged, s3_objects, fin, wd, svc, call, job, analysis, extraction>>

\* _process_meeting from the participants to the save: the derived-text
\* calls return a result or their failure value, and the results are saved.
ProcessDerive(w, outcomes) ==
    /\ worker[w].pc = "derive"
    /\ \E o \in outcomes :
          /\ o.transcription = worker[w].transcription
          /\ db' = [db EXCEPT ![worker[w].cur.id] =
                       update_meeting_record(@, TranscriptionResults(o))]
    /\ worker' = [worker EXCEPT ![w].pc = "saved", ![w].transcription = None]
    /\ UNCHANGED <<rows, streams, merged, s3_objects, fin, wd, svc, call, job, analysis, extraction>>

\* _extract_flat_meeting_analytics, first write: analytics PROCESSING.
AnalyticsStart(w) ==
    /\ worker[w].pc = "saved"
    /\ db' = [db EXCEPT ![worker[w].cur.id] = _update_analytics_status(@, PROCESSING)]
    /\ worker' = [worker EXCEPT ![w].pc = "analytics"]
    /\ UNCHANGED <<rows, streams, merged, s3_objects, fin, wd, svc, call, job, analysis, extraction>>

AnalyticsResults == [analytics_status |-> COMPLETED, analytics_data |-> Set]

\* Variant in which the exception of a failed extraction reaches the
\* handler of _process_meeting.
AnalyticsOutcomeRaises(row, extract_ok) ==
    IF extract_ok THEN update_meeting_record(row, AnalyticsResults)
    ELSE _update_meeting_status(row, FAILED)

\* What _extract_flat_meeting_analytics leaves in the row: the data saved
\* with analytics COMPLETED, or analytics FAILED, written by its own handler,
\* for any exception of the extraction.
AnalyticsOutcome(row, extract_ok) ==
    IF extract_ok THEN update_meeting_record(row, AnalyticsResults)
    ELSE _update_analytics_status(row, FAILED)

\* _extract_flat_meeting_analytics, outcome.
AnalyticsEnd(w) ==
    /\ worker[w].pc = "analytics"
    /\ \E extract_ok \in BOOLEAN :
          db' = [db EXCEPT ![worker[w].cur.id] = AnalyticsOutcome(@, extract_ok)]
    /\ worker' = [worker EXCEPT ![w] = AfterRun(@)]
    /\ UNCHANGED <<rows, streams, merged, s3_objects, fin, wd, svc, call, job, analysis, extraction>>

\* The list is exhausted: the poller sleeps, process_all_pending returns.
LoopDone(w) ==
    /\ worker[w].pc = "loop"
    /\ worker[w].queue = <<>>
    /\ worker' = [worker EXCEPT ![w] =
                    IF w = "poller" THEN [WorkerIdle EXCEPT !.pc = "sleep"]
                    ELSE WorkerIdle]
    /\ svc' = ResetErrors(w)
    /\ UNCHANGED <<rows, db, streams, merged, s3_objects, fin, wd, call, job, analysis, extraction>>

\* time.sleep in _worker_loop is over.
Wake ==
    /\ worker["poller"].pc = "sleep"
    /\ worker' = [worker EXCEPT !["poller"] = WorkerIdle]
    /\ UNCHANGED <<rows, db, streams, merged, s3_objects, fin, wd, svc, call, job, analysis, extraction>>

\* wait_time = min(60 * (2 ** consecutive_errors), 300)
Backoff(n) ==
    IF 60 * (2 ^ n) < max_wait_time THEN 60 * (2 ^ n) ELSE max_wait_time

\* The except branch of _worker_loop: an exception escaped the loop body.
\* The calls of the body catch their own exceptions, so this is the failure
\* of opening or closing the session of a check; the check is abandoned.
LoopException ==
    /\ worker["poller"].pc = "idle"
    /\ svc.is_running
    /\ LET n == svc.consecutive_errors + 1
       IN  IF n >= max_consecutive_errors
           THEN /\ svc' = [svc EXCEPT !.consecutive_errors = n, !.is_running = FALSE]
                /\ worker' = [worker EXCEPT !["poller"] = [WorkerIdle EXCEPT !.pc = "stopped"]]
           ELSE /\ svc' = [svc EXCEPT !.consecutive_errors = n, !.wait_time = Backoff(n)]
                /\ worker' = [worker EXCEPT !["poller"] = [WorkerIdle EXCEPT !.pc = "sleep"]]
    /\ UNCHANGED <<rows, db, streams, merged, s3_objects, fin, wd, call, job, analysis, extraction>>

\* start(): a stopped service gets a new worker thread.
start ==
    /\ ~svc.is_running
    /\ svc' = [svc EXCEPT !.is_running = TRUE, !.consecutive_errors = 0]
    /\ worker' = [worker EXCEPT !["poller"] = WorkerIdle]
    /\ UNCHANGED <<rows, db, streams, merged, s3_objects, fin, wd, call, job, analysis, extraction>>

\* ------------------------------------------------------ start and stop
\* while self.is_running and not self.stop_event.is_set()
WhileTest(t) ==
    /\ svc.threads[t].pc = "while"
    /\ svc' = [svc EXCEPT !.threads[t].pc =
                  IF svc.is_running /\ ~svc.stop_event THEN "query" ELSE "ended"]
    /\ UNCHANGED <<rows, db, streams, merged, s3_objects, fin, wd, worker, call, job, analysis, extraction>>

\* pending_meetings = self._get_pending_meetings(); with none the thread
\* sleeps.
ThreadQuery(t) ==
    /\ svc.threads[t].pc = "query"
    /\ svc' = [svc EXCEPT !.threads[t] =
                  IF _get_pending_meetings = <<>>
                  THEN [ThreadUnborn EXCEPT !.pc = "sleep"]
                  ELSE [ThreadUnborn EXCEPT !.pc = "for", !.queue = _get_pending_meetings]]
    /\ UNCHANGED <<rows, db, streams, merged, s3_objects, fin, wd, worker, call, job, analysis, extraction>>

\* One turn of the for loop: it ends with the list or with the stop event
\* set, and the thread sleeps; otherwise _process_meeting begins.
ThreadFor(t) ==
    /\ svc.threads[t].pc = "for"
    /\ IF svc.threads[t].queue = <<>> \/ svc.stop_event
       THEN /\ svc' = [svc EXCEPT !.threads[t] = [ThreadUnborn EXCEPT !.pc = "sleep"]]
            /\ db' = db
       ELSE LET meeting == Head(svc.threads[t].queue)
            IN  /\ db' = [db EXCEPT ![meeting.id] = _update_meeting_status(@, PROCESSING)]
                /\ svc' = [svc EXCEPT !.threads[t] =
                              [pc |-> "processing", queue |-> Tail(svc.threads[t].queue),
                               cur |-> meeting.id]]
    /\ UNCHANGED <<rows, streams, merged, s3_objects, fin, wd, worker, call, job, analysis, extraction>>

\* _process_meeting returns, the recording COMPLETED or FAILED.
ThreadProcessed(t) ==
    /\ svc.threads[t].pc = "processing"
    /\ \E st \in {COMPLETED, FAILED} :
          db' = [db EXCEPT ![svc.threads[t].cur] = _update_meeting_status(@, st)]
    /\ svc' = [svc EXCEPT !.threads[t].pc = "for", !.threads[t].cur = 0]
    /\ UNCHANGED <<rows, streams, merged, s3_objects, fin, wd, worker, call, job, analysis, extraction>>

\* time.sleep is over.
ThreadWake(t) ==
    /\ svc.threads[t].pc = "sleep"
    /\ svc' = [svc EXCEPT !.threads[t].pc = "while"]
    /\ UNCHANGED <<rows, db, streams, merged, s3_objects, fin, wd, worker, call, job, analysis, extraction>>

\* start() on a service that is not running: the flags are set and a new
\* thread is created and started.
start_thread ==
    /\ ~svc.is_running
    /\ ~svc.joining
    /\ \E t \in Threads :
          /\ svc.threads[t].pc = "unborn"
          /\ \A u \in Threads : u < t => svc.threads[u].pc # "unborn"
          /\ svc' = [svc EXCEPT !.is_running = TRUE, !.stop_event = FALSE,
                                !.worker_thread = t, !.threads[t] = ThreadStarted]
    /\ UNCHANGED <<rows, db, streams, merged, s3_objects, fin, wd, worker, call, job, analysis, extraction>>

\* stop() on a running service, up to the join.
stop ==
    /\ svc.is_running
    /\ ~svc.joining
    /\ svc' = [svc EXCEPT !.is_running = FALSE, !.stop_event = TRUE, !.joining = TRUE]
    /\ UNCHANGED <<rows, db, streams, merged, s3_objects, fin, wd, worker, call, job, analysis, extraction>>

\* worker_thread.join(timeout=10) returns: the thread has ended, or the ten
\* seconds are over.
stop_join ==
    /\ svc.joining
    /\ svc' = [svc EXCEPT !.joining = FALSE]
    /\ UNCHANGED <<rows, db, streams, merged, s3_objects, fin, wd, worker, call, job, analysis, extraction>>

\* ------------------------------------------------- inference gateway
\* What one invocation of the wrapped function does: it returns the
\* response or raises one of these errors.
Ok == "ok"
Errors == {"ValueError", "ServerError", "RateLimited"}
TypeError == "TypeError"

\* (max_retries, base_delay, max_delay) as the callers pass them: the
\* configured AUDIO_MAX_RETRIES (default 3) with the configured delays for
\* call_model, and the fixed values of the splitter and the JSON parser.
RetryArgs ==
    [max_retries : 0..MaxRetries, base_delay : {2}, max_delay : {60}]
        \cup { [max_retries |-> 2, base_delay |-> 1, max_delay |-> 10] }

\* A retry_with_backoff call: its arguments, its locals attempt and
\* last_exception, the last delay it slept, the outcomes of the invocations
\* of the wrapped function so far, and what it returned or raised.
CallIdle ==
    [pc |-> "idle", max_retries |-> 0, base_delay |-> 0, max_delay |-> 0,
     attempt |-> 0, last_exception |-> None, delay |-> 0, history |-> <<>>,
     result |-> None, raised |-> None, func |-> None, bodies |-> <<>>,
     outer |-> 0, invocations |-> 0]

\* call_model: the retried call begins.
call_model ==
    /\ call.pc = "idle"
    /\ \E a \in RetryArgs :
          call' = [CallIdle EXCEPT !.pc = "try", !.max_retries = a.max_retries,
                                   !.base_delay = a.base_delay,
                                   !.max_delay = a.max_delay]
    /\ UNCHANGED <<rows, db, streams, merged, s3_objects, fin, wd, worker, svc, job, analysis, extraction>>

\* Variant of the loop bound with one more pass.
InRangeInclusive(attempt, max_retries) == attempt <= max_retries

\* for attempt in range(max_retries)
InRange(attempt, max_retries) == attempt < max_retries

\* delay = min(max_delay, base_delay * (2 ** attempt))
Delay(c) ==
    IF c.base_delay * (2 ^ c.attempt) < c.max_delay
    THEN c.base_delay * (2 ^ c.attempt)
    ELSE c.max_delay

\* One pass of the loop of retry_with_backoff in which the wrapped function
\* returned (r = Ok) or raised r: the last pass re-raises, an earlier one
\* sleeps.
RetryPass(c, r) ==
    IF r = Ok
    THEN [c EXCEPT !.pc = "returned",
                   !.history = Append(@, r),
                   !.result = Len(c.history) + 1]
    ELSE IF c.attempt = c.max_retries - 1
    THEN [c EXCEPT !.pc = "raised",
                   !.history = Append(@, r),
                   !.last_exception = r,
                   !.raised = r]
    ELSE [c EXCEPT !.history = Append(@, r),
                   !.last_exception = r,
                   !.delay = Delay(c),
                   !.attempt = @ + 1]

\* After the loop, "raise last_exception" (a TypeError when no pass ran and
\* last_exception is None).
RetryExhausted(c) ==
    [c EXCEPT !.pc = "raised",
              !.raised = IF c.last_exception = None THEN TypeError
                         ELSE c.last_exception]

\* One pass of the loop of retry_with_backoff: the wrapped function is
\* invoked and returns, or raises.
retry_with_backoff ==
    /\ call.pc = "try"
    /\ IF InRange(call.attempt, call.max_retries)
       THEN \E r \in {Ok} \cup Errors : call' = RetryPass(call, r)
       ELSE call' = RetryExhausted(call)
    /\ UNCHANGED <<rows, db, streams, merged, s3_objects, fin, wd, worker, svc, job, analysis, extraction>>

\* call_model returns the response, or raises an Exception whose message
\* ends with the text of what retry_with_backoff raised.
CallOver ==
    /\ call.pc \in {"returned", "raised"}
    /\ call' = CallIdle
    /\ UNCHANGED <<rows, db, streams, merged, s3_objects, fin, wd, worker, svc, job, analysis, extraction>>

\* What generate_content gives: a response with text, a response whose body
\* is empty or missing (response or response.text falsy), or an error.
Text == "text"
EmptyBody == "empty"
Bodies == {Text, EmptyBody}

\* The functions that call generate_content inside retry_with_backoff.
BackendCallers ==
    {"_make_api_call", "_generate_summary_internal", "_extract_action_items_internal"}

\* What the wrapped function does with what generate_content gave: an error
\* propagates; an empty body makes _make_api_call raise ValueError, while
\* _generate_summary_internal returns response.text as it is and
\* _extract_action_items_internal returns the empty list.
Invoke(func, reply) ==
    IF reply \in Errors THEN reply
    ELSE IF reply = EmptyBody /\ func = "_make_api_call" THEN "ValueError"
    ELSE Ok

\* call_model, generate_summary or extract_action_items begins its retried
\* call with the configured retry settings.
backend_call ==
    /\ call.pc = "idle"
    /\ \E func \in BackendCallers, a \in RetryArgs :
          /\ a.base_delay = 2
          /\ call' = [CallIdle EXCEPT !.pc = "try", !.max_retries = a.max_retries,
                                      !.base_delay = a.base_delay,
                                      !.max_delay = a.max_delay,
                                      !.func = func]
    /\ UNCHANGED <<rows, db, streams, merged, s3_objects, fin, wd, worker, svc, job, analysis, extraction>>

\* One pass of the loop in which the wrapped function calls the backend.
generate_content ==
    /\ call.pc = "try"
    /\ call.func # None
    /\ IF InRange(call.attempt, call.max_retries)
       THEN \E reply \in Bodies \cup Errors :
               call' = [RetryPass(call, Invoke(call.func, reply))
                           EXCEPT !.bodies = Append(@, reply)]
       ELSE call' = RetryExhausted(call)
    /\ UNCHANGED <<rows, db, streams, merged, s3_objects, fin, wd, worker, svc, job, analysis, extraction>>

\* transcribe_chunk begins: retry_with_backoff around
\* _transcribe_chunk_internal, which calls call_model, itself
\* retry_with_backoff around _make_api_call, both with the configured
\* max_retries.  outer is the attempt of the outer loop, attempt that of
\* the loop inside call_model, invocations counts generate_content calls.
transcribe_chunk ==
    /\ call.pc = "idle"
    /\ \E a \in RetryArgs :
          /\ a.base_delay = 2
          /\ call' = [CallIdle EXCEPT !.pc = "chunk", !.max_retries = a.max_retries,
                                      !.base_delay = a.base_delay,
                                      !.max_delay = a.max_delay,
                                      !.func = "transcribe_chunk"]
    /\ UNCHANGED <<rows, db, streams, merged, s3_objects, fin, wd, worker, svc, job, analysis, extraction>>

\* _transcribe_chunk_internal raised in a pass of the outer loop: the last
\* pass re-raises and transcribe_chunk returns (idx, []), an earlier one
\* sleeps and calls _transcribe_chunk_internal again.
ChunkPassRaised(c) ==
    IF c.outer = c.max_retries - 1
    THEN [c EXCEPT !.pc = "failed"]
    ELSE [c EXCEPT !.outer = @ + 1, !.attempt = 0]

\* One generate_content call of _make_api_call inside call_model inside
\* _transcribe_chunk_internal.  A response with text goes to
\* safe_extract_json, which returns the segments or raises ValueError; an
\* error or an empty body is retried by call_model, whose last pass raises.
_transcribe_chunk_internal ==
    /\ call.pc = "chunk"
    /\ IF InRange(call.outer, call.max_retries)
       THEN \E reply \in Bodies \cup Errors, parse_ok \in BOOLEAN :
               LET c == [call EXCEPT !.invocations = @ + 1]
               IN  call' =
                      IF Invoke("_make_api_call", reply) = Ok
                      THEN IF parse_ok THEN [c EXCEPT !.pc = "returned"]
                           ELSE ChunkPassRaised(c)
                      ELSE IF c.attempt = c.max_retries - 1
                      THEN ChunkPassRaised(c)
                      ELSE [c EXCEPT !.attempt = @ + 1]
       ELSE call' = [call EXCEPT !.pc = "failed"]
    /\ UNCHANGED <<rows, db, streams, merged, s3_objects, fin, wd, worker, svc, job, analysis, extraction>>

\* transcribe_chunk returned the segments, or the empty list of a failed
\* chunk.
ChunkOver ==
    /\ call.pc \in {"returned", "failed"}
    /\ call.func = "transcribe_chunk"
    /\ call' = CallIdle
    /\ UNCHANGED <<rows, db, streams, merged, s3_objects, fin, wd, worker, svc, job, analysis, extraction>>

\* ------------------------------------------------ chunked transcription
\* The default of AUDIO_OFFSET_CHUNK, the window split_audio cuts by, and the
\* offset transcribe_chunks passes to merge_json_with_offset.
default_offset_chunk == 300
merge_time_offset == 300

\* The configured values of AUDIO_OFFSET_CHUNK considered.
Windows == {default_offset_chunk, 2 * default_offset_chunk}

\* A segment of the response for chunk idx: src and pos stand for its text
\* (what was said in chunk src, the pos-th entry of the response), start and
\* end are seconds from the start of the chunk.
Seg(idx, k, from, to) == [src |-> idx, pos |-> k, start |-> from, end |-> to]

\* What transcribe_chunk(idx, ...) returns: the segments safe_extract_json
\* kept, in the order and with the times the backend gave, or the empty list
\* when the retries are exhausted.
ChunkData(idx) ==
    { <<>>,
      <<Seg(idx, 1, 0, 10), Seg(idx, 2, 10, 20)>>,
      <<Seg(idx, 1, 10, 20), Seg(idx, 2, 0, 10)>>,
      <<Seg(idx, 1, 5, 5)>> }

\* The chunk index sets split_audio can return.
ChunkSets == {0..(n - 1) : n \in 1..MaxChunks}

\* A transcribe_chunks call: the window split_audio used, what each
\* submitted transcribe_chunk call returns, the futures not yet completed,
\* the results dict as the sequence of its items in insertion order, the
\* transcript returned, and the chunk files of the call that are on disk.
JobIdle ==
    [pc |-> "idle", window |-> 0, chunks |-> <<>>, pending |-> {},
     results |-> <<>>, final_json |-> <<>>, files |-> {}]

\* transcribe_chunks up to the submission of the chunk calls, or the
\* exception of a split_audio that failed.
transcribe_chunks ==
    /\ job.pc = "idle"
    /\ \E window \in Windows, split_ok \in BOOLEAN, idxs \in ChunkSets :
          \E chunks \in [idxs -> UNION {ChunkData(i) : i \in idxs}] :
             /\ \A i \in idxs : chunks[i] \in ChunkData(i)
             /\ job' = IF split_ok
                       THEN [JobIdle EXCEPT !.pc = "running", !.window = window,
                                            !.chunks = chunks, !.pending = idxs,
                                            !.files = idxs]
                       ELSE [JobIdle EXCEPT !.pc = "raised"]
    /\ UNCHANGED <<rows, db, streams, merged, s3_objects, fin, wd, worker, svc, call, analysis, extraction>>

\* as_completed yields a future: results[idx] = json_data.
ChunkCompleted ==
    /\ job.pc = "running"
    /\ \E idx \in job.pending :
          job' = [job EXCEPT !.pending = @ \ {idx},
                             !.results = Append(@, <<idx, job.chunks[idx]>>)]
    /\ UNCHANGED <<rows, db, streams, merged, s3_objects, fin, wd, worker, svc, call, analysis, extraction>>

\* {k: v for k, v in results.items() if v}
RECURSIVE valid_results(_)
valid_results(items) ==
    IF items = <<>> THEN <<>>
    ELSE IF Head(items)[2] = <<>> THEN valid_results(Tail(items))
    ELSE <<Head(items)>> \o valid_results(Tail(items))

\* Variant that keeps the insertion order of the dict.
unsorted(items) == items

\* sorted(data.items(), key=lambda x: x[0])
RECURSIVE sorted(_)
sorted(items) ==
    IF items = <<>> THEN <<>>
    ELSE LET k == CHOOSE i \in 1..Len(items) :
                     \A j \in 1..Len(items) : items[i][1] <= items[j][1]
         IN  <<items[k]>> \o
             sorted(SubSeq(items, 1, k - 1) \o SubSeq(items, k + 1, Len(items)))

\* The entries of one chunk with the offset added to start and end.
WithOffset(json_array, offset_seconds) ==
    [e \in 1..Len(json_array) |->
        [json_array[e] EXCEPT !.start = @ + offset_seconds,
                              !.end = @ + offset_seconds]]

RECURSIVE MergeItems(_, _)
MergeItems(items, time_offset) ==
    IF items = <<>> THEN <<>>
    ELSE WithOffset(Head(items)[2], Head(items)[1] * time_offset)
            \o MergeItems(Tail(items), time_offset)

\* merge_json_with_offset
merge_json_with_offset(data, time_offset) ==
    MergeItems(sorted(data), time_offset)

\* The chunk files on disk when transcribe_chunks returns: the loop that
\* removes them is reached only after a merge.
FilesLeft(data, files) == IF data = <<>> THEN files ELSE {}

\* transcribe_chunks once every future completed: the empty list when no
\* chunk gave segments, the merged segments otherwise.
MergeResults ==
    /\ job.pc = "running"
    /\ job.pending = {}
    /\ job' = [job EXCEPT
                 !.pc = "returned",
                 !.final_json =
                     IF valid_results(job.results) = <<>> THEN <<>>
                     ELSE merge_json_with_offset(valid_results(job.results),
                                                 merge_time_offset),
                 !.files = FilesLeft(valid_results(job.results), job.files)]
    /\ UNCHANGED <<rows, db, streams, merged, s3_objects, fin, wd, worker, svc, call, analysis, extraction>>

\* The caller has the transcript or the exception.
JobOver ==
    /\ job.pc \in {"returned", "raised"}
    /\ job' = JobIdle
    /\ UNCHANGED <<rows, db, streams, merged, s3_objects, fin, wd, worker, svc, call, analysis, extraction>>

\* ------------------------------------------------ analytics extraction
\* The two extractors, the value of a field taken from the model's response
\* and the value of total_participants counted from the participants.
Mobile == "mobile_audio"
Flat == "flat"
Extractors == {Mobile, Flat}
FromModel == "model"
Counted == "len(participants)"
\* A duration that is None.
NoDuration == 0

\* A transcript segment: its end in whole seconds and its speaker label.
Segment(to, who) == [end |-> to, speaker |-> who]

\* The transcripts considered: none, one segment, and two segments of which
\* one ends at 14 s.
Transcripts ==
    {<<>>}
        \cup {<<Segment(e, who)>> : e \in 0..MaxSeconds, who \in {"Speaker 1", None}}
        \cup {<<Segment(e, "Speaker 1"), Segment(14, "Speaker 2")>> : e \in 0..MaxSeconds}
        \cup {<<Segment(14, "Speaker 1"), Segment(e, "Speaker 2")>> : e \in 0..MaxSeconds}

\* The transcripts an analytics run of the pipeline is followed with.
RunTranscripts ==
    {<<>>, <<Segment(14, "Speaker 1")>>, <<Segment(61, None)>>}

\* max_end_time: the largest "end" of the segments, 0 when there is none.
max_end_time(transcript) ==
    LET ends == {transcript[i].end : i \in 1..Len(transcript)} \cup {0}
    IN  CHOOSE e \in ends : \A x \in ends : x <= e

\* _calculate_duration_from_transcription of the poller:
\* max(1, math.ceil(max_end_time / 60)), None without a positive end.
_calculate_duration_from_transcription(transcription) ==
    IF transcription = <<>> THEN NoDuration
    ELSE IF max_end_time(transcription) > 0
    THEN Max(1, (max_end_time(transcription) + 59) \div 60)
    ELSE NoDuration

\* _calculate_duration_from_transcript of both extractors:
\* int((max_end_time / 60) + 0.5), None when that is 0.
_calculate_duration_from_transcript(transcript) ==
    IF transcript = <<>> THEN NoDuration
    ELSE LET duration_minutes == (max_end_time(transcript) + 30) \div 60
         IN  IF duration_minutes > 0 THEN duration_minutes ELSE NoDuration

\* _extract_participants_from_transcript: the speakers of the segments.
_extract_participants_from_transcript(transcript) ==
    {transcript[i].speaker : i \in 1..Len(transcript)} \ {None}

\* The fields of the response each extractor reads, as (category, field),
\* one for each way the extractor reads a field: the categories of the
\* mobile extractor are all read with defaults; the flat extractor indexes
\* its categories and their fields (attendance is a dict inside
\* participation_engagement), except audio_insights and three fields of
\* participation_engagement.
MobileFields ==
    { <<"audio_quality", "clarity_score">>,
      <<"sentiment_analysis", "overall_sentiment">>,
      <<"sentiment_analysis", "sentiment_score">>,
      <<"sentiment_analysis", "emotional_tone">>,
      <<"participation", "total_participants">> }

FlatFields ==
    { <<"technical_audio_visual_quality", "audio_clarity">>,
      <<"participation_engagement", "attendance.total_participants">>,
      <<"participation_engagement", "speaking_distribution">>,
      <<"audio_insights", "key_moments">>,
      <<"meeting_sentiment", "sentiment">>,
      <<"meeting_sentiment", "sentiment_score">> }

ExpectedFields(extractor) ==
    IF extractor = Mobile THEN MobileFields ELSE FlatFields

Categories(extractor) == {p[1] : p \in ExpectedFields(extractor)}

\* The fields the flat extractor indexes.
FlatRequired ==
    { <<"technical_audio_visual_quality", "audio_clarity">>,
      <<"participation_engagement", "attendance.total_participants">> }

\* The two fields of the response the sentiment is read from.
SentimentField(extractor) ==
    IF extractor = Mobile THEN <<"sentiment_analysis", "overall_sentiment">>
    ELSE <<"meeting_sentiment", "sentiment">>

SentimentScoreField(extractor) ==
    IF extractor = Mobile THEN <<"sentiment_analysis", "sentiment_score">>
    ELSE <<"meeting_sentiment", "sentiment_score">>

\* The keys of the flat object each extractor builds from these fields.
FlatKeys(extractor) ==
    IF extractor = Mobile
    THEN {"audio_clarity", "sentiment", "sentiment_score", "emotional_tone",
          "total_participants", "participants", "duration_minutes"}
    ELSE {"audio_clarity", "total_participants", "speaking_distribution",
          "key_moments", "sentiment", "sentiment_score", "participants",
          "duration_minutes"}

\* A parsed response: the categories it holds and the fields they hold.  ok
\* is FALSE for a call that raised, an empty text or a text without JSON.
NoReply == [ok |-> FALSE, cats |-> {}, fields |-> {}]

Responses(extractor) ==
    {r \in [ok : {TRUE}, cats : SUBSET Categories(extractor),
            fields : SUBSET ExpectedFields(extractor)] :
        \A p \in r.fields : p[1] \in r.cats}

\* The calls considered: an extractor and what its model call gave.
Calls ==
    {<<extractor, r>> : extractor \in Extractors, r \in {NoReply}}
        \cup UNION {{<<extractor, r>> : r \in Responses(extractor)} :
                        extractor \in Extractors}

\* Variant that reads a field without a default.
GetNoDefault(response, cat, field, default) ==
    IF <<cat, field>> \in response.fields THEN FromModel ELSE None

\* analytics_data.get(cat, {}).get(field, default)
Get(response, cat, field, default) ==
    IF <<cat, field>> \in response.fields THEN FromModel ELSE default

\* The flat object of mobile_audio_analytics.extract_analytics.
MobileAnalytics(response, participants, duration_minutes) ==
    [k \in FlatKeys(Mobile) |->
        CASE k = "audio_clarity" ->
                Get(response, "audio_quality", "clarity_score", "7.0")
          [] k = "sentiment" ->
                Get(response, "sentiment_analysis", "overall_sentiment", "neutral")
          [] k = "sentiment_score" ->
                Get(response, "sentiment_analysis", "sentiment_score", "5.0")
          [] k = "emotional_tone" ->
                Get(response, "sentiment_analysis", "emotional_tone", "neutral")
          [] k = "total_participants" ->
                IF participants # {} THEN Counted
                ELSE Get(response, "participation", "total_participants", "1")
          [] k = "participants" ->
                IF participants # {} THEN "participants" ELSE "[]"
          [] k = "duration_minutes" ->
                IF duration_minutes # NoDuration THEN "duration_minutes" ELSE "0.0"]

\* The flat extractor raises KeyError for a category or a field it indexes
\* and the response does not hold.
FlatKeyError(response) ==
    \/ \E p \in FlatRequired : p \notin response.fields
    \/ "participation_engagement" \notin response.cats

\* The flat object of flat_meeting_analytics.extract_analytics.
FlatAnalytics(response, participants, duration_minutes) ==
    [k \in FlatKeys(Flat) |->
        CASE k = "audio_clarity" -> FromModel
          [] k = "total_participants" -> FromModel
          [] k = "speaking_distribution" ->
                Get(response, "participation_engagement", "speaking_distribution", "7.0")
          [] k = "key_moments" ->
                Get(response, "audio_insights", "key_moments", "[]")
          [] k = "sentiment" ->
                Get(response, "meeting_sentiment", "sentiment", "neutral")
          [] k = "sentiment_score" ->
                Get(response, "meeting_sentiment", "sentiment_score", "5.0")
          [] k = "participants" ->
                IF participants # {} THEN "participants" ELSE "[]"
          [] k = "duration_minutes" ->
                IF duration_minutes # NoDuration THEN "duration_minutes" ELSE "0.0"]

NoData == [k \in {} |-> None]

\* extract_analytics of either extractor: participants and duration are
\* derived from the transcript when the caller gave none; the call raises
\* when the model gave no parsed response or a lookup raised.
extract_analytics(extractor, response, transcript, participants, duration_minutes) ==
    LET p == IF participants = {}
             THEN _extract_participants_from_transcript(transcript)
             ELSE participants
        d == IF duration_minutes = NoDuration
             THEN _calculate_duration_from_transcript(transcript)
             ELSE duration_minutes
    IN  IF ~response.ok \/ (extractor = Flat /\ FlatKeyError(response))
        THEN [raised |-> TRUE, duration_minutes |-> d, data |-> NoData]
        ELSE [raised |-> FALSE, duration_minutes |-> d,
              data |-> IF extractor = Mobile THEN MobileAnalytics(response, p, d)
                       ELSE FlatAnalytics(response, p, d)]

\* The sentiment check of _extract_flat_meeting_analytics before the save.
WithSentiment(data) ==
    [k \in DOMAIN data \cup {"sentiment", "sentiment_score"} |->
        IF k \in DOMAIN data THEN data[k]
        ELSE IF k = "sentiment" THEN "neutral" ELSE "5.0"]

\* _is_mobile_meeting: a meeting with an audio reference is a mobile one.
\* (The checks that follow are reached only without an audio reference,
\* with which _process_meeting has returned before.)
_is_mobile_meeting(meeting) == meeting.s3_audio_path \notin {None, ""}

\* The last extract_analytics call: its arguments, what the poller's
\* calculator gave for the transcript, the duration the extractor went on
\* with, and the flat object it returned; pc is "saved" once the object is
\* stored as analytics_data of recording id.
AnalysisIdle ==
    [pc |-> "idle", id |-> 0, extractor |-> Mobile, response |-> NoReply,
     transcript |-> <<>>, supplied |-> NoDuration,
     calculated |-> NoDuration, duration_minutes |-> NoDuration,
     data |-> NoData]

Analysed(id, extractor, response, transcript, participants, supplied, state) ==
    LET r == extract_analytics(extractor, response, transcript, participants, supplied)
    IN  [pc |-> IF r.raised THEN "raised" ELSE state,
         id |-> id, extractor |-> extractor, response |-> response,
         transcript |-> transcript, supplied |-> supplied,
         calculated |-> _calculate_duration_from_transcription(transcript),
         duration_minutes |-> r.duration_minutes,
         data |-> IF r.raised THEN NoData
                  ELSE IF state = "saved" THEN WithSentiment(r.data) ELSE r.data]

\* _process_meeting from the duration to the end of
\* _extract_flat_meeting_analytics, with the extraction followed: the
\* extractor is chosen, called with the participants and the duration the
\* poller derived, and its object is saved, or analytics is FAILED.
AnalyticsRunOf(w, calls) ==
    /\ worker[w].pc = "analytics"
    /\ LET meeting == worker[w].cur
           extractor == IF _is_mobile_meeting(meeting) THEN Mobile ELSE Flat
       IN  \E transcript \in RunTranscripts, c \in calls :
              /\ c[1] = extractor
              /\ (transcript = <<>>) <=> (db[meeting.id].transcription = Empty)
              /\ analysis' = Analysed(meeting.id, extractor, c[2], transcript,
                                      _extract_participants_from_transcript(transcript),
                                      _calculate_duration_from_transcription(transcript),
                                      "saved")
              /\ db' = [db EXCEPT ![meeting.id] =
                           AnalyticsOutcome(@, analysis'.pc = "saved")]
    /\ worker' = [worker EXCEPT ![w] = AfterRun(@)]
    /\ UNCHANGED <<rows, streams, merged, s3_objects, fin, wd, svc, call, job, extraction>>

AnalyticsRun(w) == AnalyticsRunOf(w, Calls)

\* The calls whose response is complete, and those that got none.
NominalCalls ==
    {c \in Calls : ~c[2].ok \/ c[2].fields = ExpectedFields(c[1])}

\* A call of an extractor's extract_analytics: from the poller's run, with
\* the participants and the duration the poller derived, or with neither.
ExtractorCall ==
    /\ analysis.pc = "idle"
    /\ \E c \in Calls, transcript \in Transcripts, derived \in BOOLEAN :
        /\ analysis' =
              Analysed(0, c[1], c[2], transcript,
                       IF derived THEN _extract_participants_from_transcript(transcript)
                       ELSE {},
                       IF derived THEN _calculate_duration_from_transcription(transcript)
                       ELSE NoDuration,
                       "returned")
        /\ UNCHANGED <<rows, db, streams, merged, s3_objects, fin, wd, worker, svc,
                       call, job, extraction>>

\* The caller has the flat object or the exception.
ExtractorOver ==
    /\ analysis.pc \in {"returned", "raised"}
    /\ analysis' = AnalysisIdle
    /\ UNCHANGED <<rows, db, streams, merged, s3_objects, fin, wd, worker, svc,
                   call, job, extraction>>

\* ------------------------------------------------ action item extraction
\* JSON values of the model's response: a key the entry does not hold, a
\* value that is neither text nor null nor otherwise falsy (a number, a
\* list, an object, true).  None is null.
Absent == "<absent>"
NonText == "<non-text>"

Priorities == {"high", "medium", "low"}
Statuses == {"pending", "in_progress", "completed"}

\* The entries of the parsed array that are considered.  due_date is read as
\* owner is and is left out.
RawItems ==
    [dict : {TRUE}, description : {Absent, None, "  Send the report "},
     owner : {None, "Ann"}, priority : {Absent, "HIGH", "urgent", NonText},
     status : {None, "in_progress", "done"}]
        \cup {[dict |-> FALSE, description |-> Absent, owner |-> None,
               priority |-> Absent, status |-> None]}

RawLists == UNION {[1..n -> RawItems] : n \in 0..MaxItems}

\* str.strip and str.lower on the texts considered.
strip(text) == IF text = "  Send the report " THEN "Send the report" ELSE text
lower(text) == IF text = "HIGH" THEN "high" ELSE text

\* item.get(key) is falsy.
Falsy(value) == value \in {Absent, None, ""}

\* isinstance(item, dict) and "description" in item
HasDescriptionKey(item) == item.dict /\ item.description # Absent

\* Building cleaned_item raises AttributeError: strip or lower is called on
\* a value that is not text.
CleanRaises(item) ==
    \/ item.description \in {None, NonText}
    \/ item.owner = NonText
    \/ item.priority = NonText
    \/ item.status = NonText

\* The priority check: anything outside high, medium, low becomes medium.
ValidPriority(priority) ==
    IF priority \in Priorities THEN priority ELSE "medium"

ValidStatus(status) ==
    IF status \in Statuses THEN status ELSE "pending"

cleaned_item(item) ==
    [description |-> strip(item.description),
     owner |-> IF Falsy(item.owner) THEN None ELSE item.owner,
     priority |-> ValidPriority(IF Falsy(item.priority) THEN "medium"
                                ELSE lower(item.priority)),
     status |-> ValidStatus(IF Falsy(item.status) THEN "pending"
                            ELSE lower(item.status))]

\* The loop over the parsed array: entries without a description key are
\* skipped, the others are cleaned.
RECURSIVE cleaned_items(_)
cleaned_items(action_items) ==
    IF action_items = <<>> THEN <<>>
    ELSE IF HasDescriptionKey(Head(action_items))
    THEN <<cleaned_item(Head(action_items))>> \o cleaned_items(Tail(action_items))
    ELSE cleaned_items(Tail(action_items))

\* _extract_action_items_internal: the cleaned entries; the empty list when
\* there is no response or no array in it, and when anything raised while
\* the array was parsed and cleaned.
_extract_action_items_internal(replied, action_items) ==
    IF ~replied THEN <<>>
    ELSE IF \E i \in 1..Len(action_items) :
                HasDescriptionKey(action_items[i]) /\ CleanRaises(action_items[i])
    THEN <<>>
    ELSE cleaned_items(action_items)

\* The last extract_action_items call: whether the model's response held an
\* array, the parsed array, and the list returned.
ExtractionIdle ==
    [pc |-> "idle", replied |-> FALSE, action_items |-> <<>>, result |-> <<>>]

extract_action_items ==
    /\ extraction.pc = "idle"
    /\ \E replied \in BOOLEAN, action_items \in RawLists :
          /\ ~replied => action_items = <<>>
          /\ extraction' =
                [pc |-> "returned", replied |-> replied, action_items |-> action_items,
                 result |-> _extract_action_items_internal(replied, action_items)]
    /\ UNCHANGED <<rows, db, streams, merged, s3_objects, fin, wd, worker, svc,
                   call, job, analysis>>

\* The caller has the list.
ExtractionOver ==
    /\ extraction.pc = "returned"
    /\ extraction' = ExtractionIdle
    /\ UNCHANGED <<rows, db, streams, merged, s3_objects, fin, wd, worker, svc,
                   call, job, analysis>>

\* ------------------------------------------------------------ restart
\* The backend process dies and is started again: every thread and task is
\* gone with what it held, the table, the files and the bucket stay, and
\* lifespan starts the services anew.
Crash ==
    /\ svc.restarts < MaxRestarts
    /\ worker' = [w \in Workers |-> WorkerIdle]
    /\ fin' = [f \in Finalizers |-> FinIdle]
    /\ wd' = WdSleep
    /\ svc' = [SvcStarted EXCEPT !.restarts = svc.restarts + 1]
    /\ call' = CallIdle
    /\ job' = JobIdle
    /\ analysis' = AnalysisIdle
    /\ extraction' = ExtractionIdle
    /\ UNCHANGED <<rows, db, streams, merged, s3_objects>>

\* ------------------------------------------------------- specification
Init ==
    /\ rows = {}
    /\ db = [m \in Meetings |-> NoRow]
    /\ streams = [m \in Meetings |-> {}]
    /\ merged = [m \in Meetings |-> {}]
    /\ s3_objects = {}
    /\ fin = [f \in Finalizers |-> FinIdle]
    /\ wd = WdSleep
    /\ worker = [w \in Workers |-> WorkerIdle]
    /\ svc = SvcStarted
    /\ call = CallIdle
    /\ job = JobIdle
    /\ analysis = AnalysisIdle
    /\ extraction = ExtractionIdle

WatchdogStep ==
    \/ _check_stale_recordings
    \/ WdFinalize
    \/ WdUploadCommit
    \/ WdSuggest
    \/ WdAfterFinalize
    \/ WdPassDone

WorkerSteps(w, outcomes) ==
    \/ GetPending(w)
    \/ ProcessStart(w)
    \/ ProcessTranscribe(w, outcomes)
    \/ ProcessDerive(w, outcomes)
    \/ AnalyticsStart(w)
    \/ AnalyticsEnd(w)
    \/ LoopDone(w)

\* The processing pipeline: uploaded recordings and captures, the poller and
\* the manual trigger, reprocess requests and record updates.
NextPipeline ==
    \/ \E m \in PipelineMeetings : create_meeting(m)
    \/ \E m \in PipelineMeetings : init_meeting_recording(m, TitledInitBody)
    \/ \E m \in PipelineMeetings : reprocess_meeting(m)
    \/ \E m \in PipelineMeetings, patch \in UpdatePatches : update_meeting(m, patch)
    \/ \E w \in Workers : WorkerSteps(w, NominalOutcomes)
    \/ Wake

SpecPipeline == Init /\ [][NextPipeline]_vars

\* One streamed capture: chunk appends, the client's finalize task and the
\* poller that processes what finalize queued.
NextFinalize ==
    \/ \E body \in {StreamInitBody, TitledInitBody} :
          init_meeting_recording(TheCapture, body)
    \/ \E files \in SUBSET {"mic", "tab"} : upload_audio_chunk(TheCapture, files)
    \/ finalize_stream(TheCapture)
    \/ ClientUploadCommit
    \/ ClientSuggest
    \/ WorkerSteps("poller", NominalOutcomes)
    \/ Wake

SpecFinalize == Init /\ [][NextFinalize]_vars

\* Abandoned captures: chunk appends, the passage of time and the watchdog.
NextWatchdog ==
    \/ \E m \in Captures : init_meeting_recording(m, TitledInitBody)
    \/ \E m \in Captures, files \in {{}, {"mic"}} : upload_audio_chunk(m, files)
    \/ Tick
    \/ WatchdogStep

SpecWatchdog == Init /\ [][NextWatchdog]_vars

\* One capture with a microphone and a tab stream, abandoned to the watchdog.
NextStitch ==
    \/ \E body \in {StreamInitBody, TitledInitBody} :
          init_meeting_recording(TheCapture, body)
    \/ \E files \in SUBSET {"mic", "tab"} : upload_audio_chunk(TheCapture, files)
    \/ Tick
    \/ WatchdogStep

SpecStitch == Init /\ [][NextStitch]_vars

\* The same with a client's finalize task running beside the watchdog.
NextWatchdogRace ==
    \/ NextWatchdog
    \/ \E m \in Captures : finalize_stream(m)
    \/ ClientUploadCommit
    \/ ClientSuggest

SpecWatchdogRace == Init /\ [][NextWatchdogRace]_vars

\* One abandoned capture finalized by the client's task and by the watchdog,
\* each in its steps.
NextFinalizeRace ==
    \/ init_meeting_recording(TheCapture, TitledInitBody)
    \/ \E files \in {{"mic"}, {"mic", "tab"}} : upload_audio_chunk(TheCapture, files)
    \/ Tick
    \/ _check_stale_recordings
    \/ WdExists
    \/ WdStitch
    \/ WdUploadCommit
    \/ WdSuggest
    \/ WdAfterFinalize
    \/ WdPassDone
    \/ ClientExists(TheCapture)
    \/ ClientStitch
    \/ ClientUploadCommit
    \/ ClientSuggest

SpecFinalizeRace == Init /\ [][NextFinalizeRace]_vars

\* One uploaded recording and the poller, with every outcome of the
\* inference calls.
NextInference ==
    \/ \E m \in PipelineMeetings : create_meeting(m)
    \/ WorkerSteps("poller", Outcomes)
    \/ Wake

SpecInference == Init /\ [][NextInference]_vars

\* Several uploaded recordings and the poller thread with its error counter.
NextPoller ==
    \/ \E m \in Queued : create_meeting(m)
    \/ WorkerSteps("poller", NominalOutcomes)
    \/ Wake
    \/ LoopException
    \/ start

SpecPoller == Init /\ [][NextPoller]_vars

\* The poller across restarts of the backend process.  The poller thread
\* keeps running and its sleeps end: weak fairness of its steps.
NextRecovery ==
    \/ \E m \in Queued : create_meeting(m)
    \/ WorkerSteps("poller", NominalOutcomes)
    \/ Wake
    \/ Crash

SpecRecovery ==
    /\ Init
    /\ [][NextRecovery]_vars
    /\ WF_vars(WorkerSteps("poller", NominalOutcomes))
    /\ WF_vars(Wake)

\* The retried call of the inference backend.
NextGateway ==
    \/ call_model
    \/ retry_with_backoff
    \/ CallOver

SpecGateway == Init /\ [][NextGateway]_vars

\* The retried calls of the backend by call_model, generate_summary and
\* extract_action_items, with the responses the backend gives.
NextBackend ==
    \/ backend_call
    \/ generate_content
    \/ CallOver

SpecBackend == Init /\ [][NextBackend]_vars

\* The transcription of one chunk with its nested retries.
NextChunkCalls ==
    \/ transcribe_chunk
    \/ _transcribe_chunk_internal
    \/ ChunkOver

SpecChunkCalls == Init /\ [][NextChunkCalls]_vars

\* The service started and stopped while recordings are uploaded and
\* reprocessed.
NextLifecycle ==
    \/ \E m \in PipelineMeetings : create_meeting(m)
    \/ \E m \in PipelineMeetings : reprocess_meeting(m)
    \/ \E t \in Threads :
          \/ WhileTest(t)
          \/ ThreadQuery(t)
          \/ ThreadFor(t)
          \/ ThreadProcessed(t)
          \/ ThreadWake(t)
    \/ start_thread
    \/ stop
    \/ stop_join

SpecLifecycle == Init /\ [][NextLifecycle]_vars

\* The transcription of a recording in chunks.
NextChunks ==
    \/ transcribe_chunks
    \/ ChunkCompleted
    \/ MergeResults
    \/ JobOver

SpecChunks == Init /\ [][NextChunks]_vars

\* One uploaded recording and the poller, with the analytics extraction of
\* a run followed.
NextAnalytics ==
    \/ \E m \in PipelineMeetings : create_meeting(m)
    \/ GetPending("poller")
    \/ ProcessStart("poller")
    \/ ProcessTranscribe("poller", Outcomes)
    \/ ProcessDerive("poller", Outcomes)
    \/ AnalyticsStart("poller")
    \/ AnalyticsRun("poller")
    \/ LoopDone("poller")
    \/ Wake

SpecAnalytics == Init /\ [][NextAnalytics]_vars

\* The recording uploaded beside the capture.
TheUpload == CHOOSE m \in Meetings : m # TheCapture /\ \A n \in Meetings \ {TheCapture} : m <= n

\* An uploaded recording and a streamed capture finalized by its client,
\* both processed by the poller with the analytics extraction followed.
NextSources ==
    \/ create_meeting(TheUpload)
    \/ init_meeting_recording(TheCapture, TitledInitBody)
    \/ upload_audio_chunk(TheCapture, {"mic"})
    \/ finalize_stream(TheCapture)
    \/ ClientUploadCommit
    \/ ClientSuggest
    \/ GetPending("poller")
    \/ ProcessStart("poller")
    \/ ProcessTranscribe("poller", NominalOutcomes)
    \/ ProcessDerive("poller", NominalOutcomes)
    \/ AnalyticsStart("poller")
    \/ AnalyticsRunOf("poller", NominalCalls)
    \/ LoopDone("poller")
    \/ Wake

SpecSources == Init /\ [][NextSources]_vars

\* Calls of the two extractors.
NextExtractors ==
    \/ ExtractorCall
    \/ ExtractorOver

SpecExtractors == Init /\ [][NextExtractors]_vars

\* Calls of the action item extraction.
NextActionItems ==
    \/ extract_action_items
    \/ ExtractionOver

SpecActionItems == Init /\ [][NextActionItems]_vars

TypeOK ==
    /\ rows \subseteq Meetings
    /\ \A m \in Meetings :
          /\ db[m].status \in TranscriptionStatus
          /\ db[m].analytics_status \in AnalyticsStatus

\* ------------------------------------------------------------ properties
\* A _process_meeting run of worker w is in flight.
InFlight(w) == worker[w].pc \in {"processing", "derive", "saved", "analytics"}

\* The run of worker w is at its processing step: between the PROCESSING
\* write and the save of the results.
Transcribing(w) == worker[w].pc \in {"processing", "derive"}

\* The status changes of the pipeline state machine.
AllowedStatusChanges ==
    { <<RECORDING, PENDING>>, <<PENDING, PROCESSING>>,
      <<PROCESSING, COMPLETED>>, <<PROCESSING, FAILED>>,
      <<FAILED, PENDING>>, <<RECORDING, FAILED>> }

\* C1: the status of a recording changes only along RECORDING -> PENDING ->
\* PROCESSING -> {COMPLETED, FAILED}, FAILED -> PENDING and RECORDING ->
\* FAILED, whatever the interleaving of record updates, reprocess requests
\* and processing runs.
\* Does not hold: update_meeting_record completes a PENDING recording when
\* the patch names a processing field, and reprocess_meeting has no guard.
C1_ForwardOnly ==
    [][\A m \in rows :
          \/ db'[m].status = db[m].status
          \/ <<db[m].status, db'[m].status>> \in AllowedStatusChanges]_vars

\* C2: no two _process_meeting runs are in flight on the same recording.
\* Does not hold: the poller and process_all_pending can both hold the same
\* recording in their lists, and _process_meeting does not re-read the status.
C2_OneRunInFlight ==
    \A w1 \in Workers, w2 \in Workers :
        (w1 # w2 /\ InFlight(w1) /\ InFlight(w2))
            => worker[w1].cur.id # worker[w2].cur.id

\* C3: a run sets PROCESSING when it starts; it leaves the processing step
\* either with COMPLETED written together with transcript, summary, key
\* points, action items and participants, or with FAILED written; and a
\* recording is PROCESSING only while a run on it is still at that step.
C3_RunOutcome ==
    /\ [](\A m \in rows :
            db[m].status = PROCESSING
                => \E w \in Workers : Transcribing(w) /\ worker[w].cur.id = m)
    /\ [][\A w \in Workers :
            /\ (~Transcribing(w) /\ Transcribing(w)')
                  => db'[worker'[w].cur.id].status = PROCESSING
            /\ (Transcribing(w) /\ ~Transcribing(w)')
                  => LET row == db'[worker[w].cur.id]
                     IN  \/ /\ row.status = COMPLETED
                            /\ \A c \in ResultFields : row[c] # None
                            /\ worker'[w].pc = "saved"
                         \/ /\ row.status = FAILED
                            /\ worker'[w].pc = "loop"]_vars

C3_Witness ==
    \E w \in Workers :
        /\ worker[w].pc = "saved"
        /\ db[worker[w].cur.id].status = COMPLETED
        /\ \A c \in ResultFields : db[worker[w].cur.id][c] = Set

\* C4: a recording whose status is not COMPLETED has analytics PENDING.
\* Does not hold: a reprocess request moves a COMPLETED recording back to
\* PENDING and leaves its analytics status.
C4_AnalyticsGated ==
    \A m \in rows :
        db[m].status # COMPLETED => db[m].analytics_status = PENDING

Commits(f) == fin[f].pc = "upload" /\ fin'[f].pc = "suggest"
Suggests(f) == fin[f].pc = "suggest" /\ fin'[f].pc # "suggest"

\* A step of the watchdog thread.
WatchdogActs == wd' # wd \/ fin'["watchdog"] # fin["watchdog"]

C7_StaleLeavesRecording ==
    [][/\ (fin["watchdog"].pc \in {"ret_none", "ret_meeting"}
              /\ fin'["watchdog"].pc = "idle")
            => LET m == fin["watchdog"].id
               IN  /\ db'[m].status \in {PENDING, FAILED}
                   /\ fin["watchdog"].pc = "ret_none" => db'[m].status = FAILED
       /\ \A m \in rows :
            db[m].status # RECORDING => db'[m].status # RECORDING]_vars

C7_Witness ==
    /\ wd.pc = "loop"
    /\ fin["watchdog"].pc = "idle"
    /\ \E m \in rows : db[m].status = FAILED

\* What an audio reference names: the object key, or the merged file whether
\* it is written as a relative or as an absolute path.
Names(ref) ==
    IF ref \in {RelWav, AbsWav} THEN "wav"
    ELSE IF ref \in {RelWebm, AbsWebm} THEN "webm"
    ELSE ref

\* C8: a finalize call that finds the merged file of an earlier call does
\* not stitch again and leaves the recording with an audio reference that
\* names what the reference stored by the earlier call named.
\* Does not hold: the second call uploads again and stores the outcome of
\* its own upload.
C8_FinalizeIdempotent ==
    [][\A f \in Finalizers :
          /\ (fin[f].pc = "idle" /\ fin'[f].pc = "upload"
                  /\ merged[fin'[f].id] # {})
                => (merged' = merged /\ streams' = streams)
          /\ (Commits(f) /\ fin[f].path \in {AbsWav, AbsWebm}
                  /\ db[fin[f].id].s3_audio_path # None)
                => Names(db'[fin[f].id].s3_audio_path)
                     = Names(db[fin[f].id].s3_audio_path)]_vars

C11_TotalFailureFails ==
    \A m \in rows :
        db[m].status = COMPLETED => db[m].transcription # Empty

\* C20: once the transcription is obtained, a failure of a derived-text call
\* (summary, key points, action items) fails neither the other calls nor the
\* run: the run saves COMPLETED, each derived field holding its result or,
\* for a failed call, the error text or the empty list.
C20_DerivedFailureIsolated ==
    [][\A w \in Workers :
          (worker[w].pc = "derive" /\ worker'[w].pc # "derive")
             => LET row == db'[worker[w].cur.id]
                IN  /\ worker'[w].pc = "saved"
                    /\ row.status = COMPLETED
                    /\ row.transcription = worker[w].transcription
                    /\ row.summary \in {Set, ErrorText}
                    /\ row.key_points \in {Set, ErrorText}
                    /\ row.action_items \in {Set, Empty}]_vars

C20_Witness ==
    \E m \in rows :
        /\ db[m].status = COMPLETED
        /\ db[m].transcription = Set
        /\ db[m].summary = ErrorText
        /\ db[m].key_points = Set
        /\ db[m].action_items = Set

C18_BackoffFromThird ==
    [][LET n == svc'.consecutive_errors
       IN  /\ (n = svc.consecutive_errors + 1 /\ n < 3)
                 => svc'.wait_time <= check_interval
           /\ (n = svc.consecutive_errors + 1 /\ n >= 3 /\ n < max_consecutive_errors)
                 => /\ svc'.wait_time > check_interval
                    /\ svc'.wait_time <= max_wait_time
                    /\ \/ svc'.wait_time = 2 * svc.wait_time
                       \/ svc'.wait_time = max_wait_time
                       \/ n = 3
           /\ (n = svc.consecutive_errors + 1 /\ n >= max_consecutive_errors)
                 => ~svc'.is_running
           /\ (~svc.is_running /\ worker'["poller"] # worker["poller"])
                 => svc'.is_running]_vars

\* C19: a recording that is PROCESSING, whether or not the backend process
\* was restarted in the meantime, eventually is COMPLETED or FAILED.
\* Does not hold: the poller selects PENDING recordings only and start()
\* resets nothing, so a recording whose run died with the process stays
\* PROCESSING while the restarted poller keeps checking.
C19_RecoveredAfterRestart ==
    \A m \in Meetings :
        (m \in rows /\ db[m].status = PROCESSING)
            ~> (db[m].status \in {COMPLETED, FAILED})

\* C16: a retried call invokes the wrapped function at most max_retries
\* times; it returns the response of the first invocation that succeeded and
\* invokes nothing after it; and it raises only when max_retries invocations
\* were made and all of them failed, raising the error of the last one.
C16_BoundedRetry ==
    /\ [](LET h == call.history
          IN  /\ Len(h) <= call.max_retries
              /\ \A i \in 1..(Len(h) - 1) : h[i] # Ok
              /\ call.pc = "returned"
                    => (h # <<>> /\ h[Len(h)] = Ok /\ call.result = Len(h))
              /\ call.pc = "raised"
                    => /\ Len(h) = call.max_retries
                       /\ \A i \in 1..Len(h) : h[i] # Ok
                       /\ h # <<>> => call.raised = h[Len(h)])
    /\ [][call.pc \in {"returned", "raised"} => call'.history = <<>>]_vars

C16_Witness ==
    /\ call.pc = "returned"
    /\ call.max_retries = 3
    /\ Len(call.history) = 2
    /\ call.delay = 2

\* The chunks of the running job whose call gave segments.
Succeeded == {i \in DOMAIN job.chunks : job.chunks[i] # <<>>}

\* The responses of the successful chunks, by ascending chunk index.
InIndexOrder ==
    LET ids == SeqOf(Succeeded)
    IN  [k \in 1..Len(ids) |-> <<ids[k], job.chunks[ids[k]]>>]

\* C12: a chunked transcription in which every chunk call failed raises;
\* one in which some chunk call succeeded returns a transcript that holds
\* each segment of each successful chunk once and nothing else.
\* Does not hold: with no valid chunk transcribe_chunks returns the empty
\* list.
C12_AllFailedRaises ==
    job.pc = "returned"
        => /\ Succeeded # {}
           /\ \A i \in Succeeded : \A k \in 1..Len(job.chunks[i]) :
                 Cardinality({n \in 1..Len(job.final_json) :
                                 /\ job.final_json[n].src = i
                                 /\ job.final_json[n].pos = k}) = 1
           /\ \A n \in 1..Len(job.final_json) :
                 job.final_json[n].src \in Succeeded

\* C13: each segment of the merged transcript has the start and the end the
\* backend gave it within its chunk plus the chunk's index times the window
\* the audio was split by, the index being the one the chunk was submitted
\* with.
\* Does not hold: the merge adds index * 300 whatever AUDIO_OFFSET_CHUNK is.
C13_OffsetByWindow ==
    job.pc = "returned"
        => \A n \in 1..Len(job.final_json) :
              LET g == job.final_json[n]
                  e == job.chunks[g.src][g.pos]
              IN  /\ g.start = e.start + g.src * job.window
                  /\ g.end = e.end + g.src * job.window

\* C14: the transcript returned is in ascending order of start and each of
\* its segments ends after it starts.
\* Does not hold: the segments are returned in the order and with the times
\* the backend gave them; nothing sorts them or drops an empty segment.
C14_SortedSegments ==
    job.pc = "returned"
        => /\ \A n \in 1..(Len(job.final_json) - 1) :
                 job.final_json[n].start <= job.final_json[n + 1].start
           /\ \A n \in 1..Len(job.final_json) :
                 job.final_json[n].end > job.final_json[n].start

\* C15: whatever the order in which the chunk calls complete, the merged
\* transcript is the one obtained by taking the successful chunks in
\* ascending index order, each with its segments in the order of its
\* response.
C15_OrderIndependent ==
    job.pc = "returned"
        => /\ job.final_json = MergeItems(InIndexOrder, merge_time_offset)
           /\ \A a \in 1..Len(job.final_json), b \in 1..Len(job.final_json) :
                 a < b => \/ job.final_json[a].src < job.final_json[b].src
                          \/ /\ job.final_json[a].src = job.final_json[b].src
                             /\ job.final_json[a].pos < job.final_json[b].pos

C15_Witness ==
    /\ job.pc = "returned"
    /\ Len(job.results) = 2
    /\ job.results[1][1] > job.results[2][1]
    /\ job.results[1][2] # <<>>
    /\ job.results[2][2] # <<>>
    /\ Len(job.final_json) > 2

\* C21: an analytics run that fails leaves analytics FAILED; the status of
\* the recording, COMPLETED when the run began, stays COMPLETED, and
\* transcript, summary, key points and action items stay as saved; a run
\* that succeeds leaves analytics COMPLETED with its data; and analytics is
\* PROCESSING only while a run on the recording is at its analytics step.
C21_AnalyticsFailureIsolated ==
    /\ [](\A m \in rows :
            db[m].analytics_status = PROCESSING
                => \E w \in Workers :
                      /\ worker[w].pc = "analytics"
                      /\ worker[w].cur.id = m
                      /\ db[m].status = COMPLETED)
    /\ [][\A w \in Workers :
            (worker[w].pc = "analytics" /\ worker'[w].pc # "analytics")
               => LET m == worker[w].cur.id
                  IN  /\ db'[m].status = COMPLETED
                      /\ \A c \in ResultFields : db'[m][c] = db[m][c]
                      /\ \/ /\ db'[m].analytics_status = FAILED
                            /\ db'[m].analytics_data = db[m].analytics_data
                         \/ /\ db'[m].analytics_status = COMPLETED
                            /\ db'[m].analytics_data = Set]_vars

C21_Witness ==
    \E m \in rows :
        /\ db[m].analytics_status = FAILED
        /\ db[m].status = COMPLETED
        /\ db[m].analytics_data = None
        /\ db[m].summary = ErrorText
        /\ db[m].action_items = Empty

\* C22: whenever a run stores analytics COMPLETED, the object it stores as
\* analytics data holds the keys sentiment and sentiment_score, and a key
\* whose field the model's response did not hold has the value "neutral",
\* respectively 5.0.
C22_SentimentAlwaysPresent ==
    /\ [](analysis.pc = "saved"
            => /\ {"sentiment", "sentiment_score"} \subseteq DOMAIN analysis.data
               /\ SentimentField(analysis.extractor) \notin analysis.response.fields
                     => analysis.data["sentiment"] = "neutral"
               /\ SentimentScoreField(analysis.extractor) \notin analysis.response.fields
                     => analysis.data["sentiment_score"] = "5.0")
    /\ [][\A m \in rows :
            (db'[m].analytics_status = COMPLETED /\ db[m].analytics_status # COMPLETED)
               => /\ analysis'.pc = "saved"
                  /\ analysis'.id = m
                  /\ db'[m].analytics_data = Set]_vars

C22_Witness ==
    /\ analysis.pc = "saved"
    /\ analysis.response.ok
    /\ "sentiment_analysis" \notin analysis.response.cats
    /\ analysis.data["sentiment"] = "neutral"
    /\ analysis.data["sentiment_score"] = "5.0"
    /\ analysis.id \in rows
    /\ db[analysis.id].analytics_status = COMPLETED

\* The keys an extractor gives a default, as (key, category, field, default).
KeyDefaults(extractor) ==
    IF extractor = Mobile
    THEN { <<"audio_clarity", "audio_quality", "clarity_score", "7.0">>,
           <<"sentiment", "sentiment_analysis", "overall_sentiment", "neutral">>,
           <<"sentiment_score", "sentiment_analysis", "sentiment_score", "5.0">>,
           <<"emotional_tone", "sentiment_analysis", "emotional_tone", "neutral">> }
    ELSE { <<"speaking_distribution", "participation_engagement",
             "speaking_distribution", "7.0">>,
           <<"key_moments", "audio_insights", "key_moments", "[]">>,
           <<"sentiment", "meeting_sentiment", "sentiment", "neutral">>,
           <<"sentiment_score", "meeting_sentiment", "sentiment_score", "5.0">> }

\* C23: for every parsed response, whatever categories and fields it holds,
\* the extraction returns, and the object returned has every key of the
\* extractor, a key whose field is absent holding its default.
\* Does not hold: the flat extractor indexes most of its categories and
\* fields and raises KeyError when one is absent.
C23_MissingFieldsDefaulted ==
    (analysis.pc # "idle" /\ analysis.response.ok)
        => /\ analysis.pc = "returned"
           /\ DOMAIN analysis.data = FlatKeys(analysis.extractor)
           /\ \A t \in KeyDefaults(analysis.extractor) :
                 <<t[2], t[3]>> \notin analysis.response.fields
                    => analysis.data[t[1]] = t[4]

\* E / 60 rounded up to the next whole number, for E > 0.
RoundedUp(E) == CHOOSE n \in 1..E : 60 * n >= E /\ 60 * (n - 1) < E

\* C25: for a transcript whose largest segment end is E > 0 seconds, the
\* poller's calculator gives E / 60 rounded up to a whole minute, at least
\* 1, and so does the extractor's calculator, which gives the duration the
\* extractor goes on with when it is called with none.
\* Does not hold: the extractors round to the nearest minute and give None
\* below 30 s.
C25_DurationRoundedUp ==
    (analysis.pc # "idle" /\ max_end_time(analysis.transcript) > 0)
        => /\ analysis.calculated = RoundedUp(max_end_time(analysis.transcript))
           /\ analysis.calculated >= 1
           /\ analysis.duration_minutes = RoundedUp(max_end_time(analysis.transcript))

\* The entries of the parsed array that have a description, in their order.
Described ==
    SeqOf({i \in 1..Len(extraction.action_items) :
              /\ extraction.action_items[i].dict
              /\ extraction.action_items[i].description \notin {Absent, None}})

\* C24: every action item returned has a description, a priority among
\* high, medium, low and a status among pending, in_progress, completed; the
\* items returned are the entries of the response that have a description,
\* in their order, an entry without one being dropped alone; a priority
\* that is none of the three becomes medium and a status that is none of
\* the three becomes pending.
\* Does not hold: a null description, or a priority, status or owner that is
\* not text, raises while the entries are cleaned, and the extraction then
\* returns the empty list.
C24_ActionItemsCleaned ==
    extraction.pc = "returned"
        => /\ \A k \in 1..Len(extraction.result) :
                 /\ extraction.result[k].description \notin {Absent, None}
                 /\ extraction.result[k].priority \in Priorities
                 /\ extraction.result[k].status \in Statuses
           /\ Len(extraction.result) = Len(Described)
           /\ \A k \in 1..Len(Described) :
                 LET item == extraction.action_items[Described[k]]
                     got == extraction.result[k]
                 IN  /\ got.description = strip(item.description)
                     /\ got.priority = IF lower(item.priority) \in Priorities
                                       THEN lower(item.priority) ELSE "medium"
                     /\ got.status = IF lower(item.status) \in Statuses
                                     THEN lower(item.status) ELSE "pending"

\* C26: a stitch of a recording whose only stream with content is the tab
\* stream returns that stream as it is, a raw copy, and not a file the
\* codec produced.
\* Does not hold: the stream is loaded and exported as WAV by the codec, and
\* nothing is returned when the codec is unavailable.
C26_TabOnlyReturnedRaw ==
    [][(/\ fin["watchdog"].pc = "idle"
        /\ fin'["watchdog"].pc # "idle"
        /\ streams[fin'["watchdog"].id] = {"tab"}
        /\ merged[fin'["watchdog"].id] = {})
          => /\ RawCopy(fin'["watchdog"].path)
             /\ ~CodecExport(fin'["watchdog"].path)]_vars

\* C27: finalize returns no audio only for a recording none of whose
\* streams has content: with the codec unavailable the stitch still returns
\* a raw stream that has content, microphone or tab.
\* Does not hold: the fallback copies the microphone stream only, so a
\* recording with tab content alone gets no audio when the codec fails.
C27_FallbackToRawSource ==
    [][(fin["watchdog"].pc = "idle" /\ fin'["watchdog"].pc # "idle")
          => IF streams[fin'["watchdog"].id] = {} /\ merged[fin'["watchdog"].id] = {}
             THEN fin'["watchdog"].pc = "ret_none"
             ELSE /\ fin'["watchdog"].pc = "upload"
                  /\ fin'["watchdog"].path # None]_vars

\* C28: an update of a recording changes the columns its patch names and no
\* other, updated_at and the flag is_processed aside; in particular status
\* keeps its value when the patch does not name it.
\* Does not hold: a patch that names transcription, summary or key_points
\* also sets status to COMPLETED.
C28_UpdateChangesOnlyNamedFields ==
    [][\A m \in rows, patch \in UpdatePatches :
          update_meeting(m, patch)
             => \A c \in Columns \ (DOMAIN patch \cup {"updated_ago", "is_processed"}) :
                   db'[m][c] = db[m][c]]_vars

\* C29: a run takes up a recording as the table holds it at that moment: the
\* recording it starts on is still PENDING and still has the audio
\* reference the run goes on with.
\* Does not hold: the run works on the row as the query returned it and
\* sets PROCESSING whatever the status has become since.
C29_RunActsOnCurrentState ==
    [][\A w \in Workers :
          (worker[w].pc = "loop" /\ worker'[w].pc = "processing")
             => /\ IsPending(db[worker'[w].cur.id])
                /\ worker'[w].cur.s3_audio_path = db[worker'[w].cur.id].s3_audio_path]_vars

\* C30: an accepted chunk append refreshes updated_at, and the watchdog
\* begins to finalize a capture only if its last write is more than the
\* timeout ago.
\* Does not hold: the watchdog finalizes every capture its query returned
\* without looking at the row again, so a capture that appended a chunk
\* after the query is finalized all the same.
C30_RecentCaptureNotFinalized ==
    /\ [][\A m \in rows :
            (streams'[m] # streams[m] /\ streams'[m] # {}) => db'[m].updated_ago = 0]_vars
    /\ [][(fin["watchdog"].pc = "idle" /\ fin'["watchdog"].pc # "idle")
            => db[fin'["watchdog"].id].updated_ago > timeout_minutes]_vars

\* C31: when transcribe_chunks has returned or raised, none of the chunk
\* files the call created is on disk, whether every chunk gave segments,
\* some did or none did.
\* Does not hold: with no chunk giving segments the call returns the empty
\* list before the loop that removes the files.
C31_ChunkFilesRemoved ==
    job.pc \in {"returned", "raised"} => job.files = {}

\* C32: a call of the backend returns to its caller only on a response with
\* text: a response whose body is empty or missing is a failed attempt,
\* followed by another attempt while attempts are left, and the call fails
\* when every attempt was made and none gave text.
\* Does not hold: generate_summary returns the empty text and
\* extract_action_items the empty list at the first empty response.
C32_EmptyResponseRetried ==
    call.func # None
        => /\ call.pc = "returned" => call.bodies[Len(call.bodies)] = Text
           /\ call.pc = "raised"
                 => /\ Len(call.bodies) = call.max_retries
                    /\ \A i \in 1..Len(call.bodies) : call.bodies[i] # Text

\* C33: the mobile extractor is used exactly for a recording that was
\* created PENDING by an upload and whose audio reference is its object
\* key; a streamed capture, created RECORDING, is analysed by the flat
\* extractor, whether finalize stored an object key or a local path.
\* Does not hold: any audio reference selects the mobile extractor, and a
\* recording the poller takes up always has one.
C33_MobileOnlyForUploads ==
    analysis.id \in rows
        => ((analysis.extractor = Mobile)
               <=> (/\ analysis.id = TheUpload
                    /\ db[analysis.id].s3_audio_path = S3Key))

\* The threads that were started and have not ended.
Alive == {t \in Threads : svc.threads[t].pc \notin {"unborn", "ended"}}

\* C34: over any sequence of start and stop calls at most one worker thread
\* is alive in the poll loop, and a recording is taken up only while the
\* service is running or a stop call has not returned yet.
\* Does not hold: stop returns after ten seconds with the thread still
\* alive, and a start that follows clears the stop event and sets
\* is_running, so the old thread goes on beside the new one.
C34_OneWorkerThread ==
    /\ [](Cardinality(Alive) <= 1)
    /\ [][\A t \in Threads :
            (svc.threads[t].pc = "for" /\ svc'.threads[t].pc = "processing")
               => (svc.is_running \/ svc.joining)]_vars

\* Both finalizes of a recording have ended and the watchdog's pass is over.
BothEnded ==
    /\ \A f \in Finalizers : fin[f].pc = "idle"
    /\ wd.queue = <<>>

\* C35: when the client's finalize task and the watchdog's forced finalize
\* run on the same recording and captured audio was merged, the recording
\* is QUEUED with its audio reference set once both have ended; it is not
\* left FAILED or without an audio reference.
C35_ConcurrentFinalizeQueued ==
    \A m \in rows :
        (BothEnded /\ merged[m] # {}) =>
            /\ db[m].status = PENDING
            /\ db[m].s3_audio_path # None

\* C36: every chunk whose append was acknowledged is in the merged audio
\* finalize produces: once the merged file of a recording exists no stream
\* file with acknowledged chunks lies beside it, so a chunk that arrives
\* after finalize has started is not accepted and lost.
C36_AcknowledgedChunksMerged ==
    \A m \in rows : merged[m] # {} => streams[m] = {}

\* C37: a reprocess request accepted while a run on the same recording is in
\* flight is not lost: the recording it queued stays PENDING through every
\* further step of that run, so it is QUEUED when the run ends.
C37_ReprocessNotLost ==
    [][\A w \in Workers :
          (InFlight(w) /\ worker'[w] # worker[w]
             /\ db[worker[w].cur.id].status = PENDING
             /\ ~db[worker[w].cur.id].is_processed)
          => db'[worker[w].cur.id].status = PENDING]_vars

\* C38: a chunk is declared failed after at most max_retries invocations of
\* the inference backend: while transcribe_chunk runs and when it has
\* returned, the backend was called at most max_retries times for it.
C38_BackendCallsBounded ==
    call.func = "transcribe_chunk" => call.invocations <= call.max_retries

====
